---- MODULE Spec2Model ----
(***************************************************************************)
(* Pository: the storage engine (src/src/services/storage.ts), the API key *)
(* store (src/src/services/api-keys.ts), the authentication hook and the   *)
(* package / key / apt routes, as state machines.                          *)
(*                                                                         *)
(* Specifications:                                                         *)
(*   Spec      StorageService called directly (storePackage as the chain   *)
(*             of its event-loop turns, deletePackage, the readers), with  *)
(*             process crashes and restarts.                               *)
(*   SpecPerm  hasPermission applied to every key and requirement.         *)
(*   SpecApi   HTTP requests to the server: the global preHandler hook,    *)
(*             the authentication middleware with validateKey suspended    *)
(*             on argon2.verify, the routes' own preHandlers and handlers. *)
(*             createKey is taken at the turn that appends the key; the    *)
(*             multipart parser of the framework is not part of the model. *)
(*   SpecRoutes  the routes answering requests that carry the identity the *)
(*             middleware attached, one request at a time, on a server     *)
(*             with the default or an open configuration.                  *)
(*   SpecOidc  one upload by a workflow, for every configuration of the    *)
(*             workload-identity rules and every set of claims.            *)
(*   SpecKeys  ApiKeyService called directly, one call after another.      *)
(*   SpecSanitize  sanitizePath applied to every short string.             *)
(*   SpecApt   StorageService and the apt routes, one call at a time.      *)
(*   SpecAuth  the middleware on requests that carry a bearer token, an    *)
(*             X-Api-Key or both, one request at a time, on a server with  *)
(*             one key created.                                            *)
(*   SpecValidate  validateDebianPackage applied to every short archive.   *)
(*   SpecUpload  uploads to a server with a small maxUploadSize, through   *)
(*             the multipart parser.                                       *)
(*   SpecDisk  StorageService called directly, one call at a time, on a    *)
(*             disk where writes of index.json may fail.                   *)
(*   SpecStore  ApiKeyService called directly with calls overlapping:      *)
(*             createKey suspended on argon2.hash, validateKey on          *)
(*             argon2.verify, deleteKey in one turn.                       *)
(***************************************************************************)
EXTENDS Integers, Sequences, FiniteSets, Bags, TLC

VARIABLES
    dirs,        \* directories below dataRoot, each a path (sequence of names)
    debFiles,    \* directory path -> bytes of <dir>/package.deb
    metaFiles,   \* directory path -> record in <dir>/metadata.json
    indexFiles,  \* repo -> PackageIndex.packages in <repo>/index.json
    indexCache,  \* StorageService.indexCache: repo -> PackageIndex.packages
    tasks,       \* the storePackage calls in flight, a bag of call records
    ret,         \* the outcome of the storePackage or deletePackage call that
                 \* completed in the step into this state, NoRet otherwise
    call,        \* a call of a pure function of the services: its arguments
                 \* and, once it has returned, its result
    keys,        \* ApiKeyService.store.keys, the key list in memory
    keysFile,    \* the key file: None while it does not exist, else its list
    issued,      \* how many keys createKey has generated so far
    validations, \* the validateKey calls suspended on argon2.verify
    resp         \* the response sent in the step into this state, NoResp
                 \* otherwise

storageVars == <<dirs, debFiles, metaFiles, indexFiles, indexCache, tasks, ret>>
keyVars == <<keys, keysFile, issued, validations>>
apiVars == <<keyVars, resp>>

----------------------------------------------------------------------------
(* Bounds *)

MaxTasks == 2        \* storePackage calls in flight at once
MaxCalls == 2        \* createKey and validateKey calls in flight at once

----------------------------------------------------------------------------
(* Values *)

NoSize == -1         \* an absent installedSize (undefined in the source)

\* Package files: sequences of bytes.  DebGz is a .deb with a gzip control
\* archive declaring Description, Multi-Arch and Installed-Size; DebXz is a
\* shorter .deb with an xz control archive declaring only a Description;
\* DebZst is a longer .deb with a zstd control archive declaring
\* Description, Multi-Arch and Installed-Size.
DebGz == <<1, 1>>
DebXz == <<2>>
DebZst == <<3, 3, 3>>
Buffers == {DebGz, DebXz}

\* The control fields of a file as dpkg-deb --field prints them; only whole
\* package files have any.
IsDeb(bytes) == bytes \in Buffers \cup {DebZst}

ControlOf(bytes) ==
    IF bytes = DebGz
    THEN [description |-> "gz", multiArch |-> "foreign", installedSize |-> 4]
    ELSE IF bytes = DebZst
    THEN [description |-> "zst", multiArch |-> "same", installedSize |-> 8]
    ELSE [description |-> "xz", multiArch |-> "", installedSize |-> NoSize]

NoExtra == [description |-> "", multiArch |-> "", installedSize |-> NoSize]

\* crypto.createHash("sha256").update(b).digest("hex"): a collision-free digest
Sha256(bytes) == <<"sha256", bytes>>

MkLoc(r, d, c, a, n, v) ==
    [repo |-> r, distribution |-> d, component |-> c,
     architecture |-> a, name |-> n, version |-> v]

LocHello == MkLoc("default", "stable", "main", "amd64", "hello", "1.0")
LocShared == MkLoc("default", "stable", "main", "all", "shared", "1.0")
Locs == {LocHello, LocShared}

\* new Date().toISOString(): the instants a call may read
Instants == {"T0"}

----------------------------------------------------------------------------
(* Paths and the file tree *)

\* path.join drops empty segments
PathJoin(segs) == SelectSeq(segs, LAMBDA s : s # "")

getPackagePath(loc) ==
    PathJoin(<<loc.repo, loc.distribution, loc.component,
               loc.architecture, loc.name, loc.version>>)

getIndexPath(repo) == PathJoin(<<repo>>)

IsPrefix(p, q) == Len(p) <= Len(q) /\ SubSeq(q, 1, Len(p)) = p

Dirname(p) == SubSeq(p, 1, Len(p) - 1)

Prefixes(p) == { SubSeq(p, 1, n) : n \in 1..Len(p) }

\* The file tree as the operations thread it: w.dirs, w.deb, w.meta, w.idx
\* are the tree, w.cache the index cache.
World == [dirs |-> dirs, deb |-> debFiles, meta |-> metaFiles,
          idx |-> indexFiles, cache |-> indexCache]

Put(f, k, v) == [x \in DOMAIN f \cup {k} |-> IF x = k THEN v ELSE f[x]]

Drop(f, ks) == [x \in DOMAIN f \ ks |-> f[x]]

\* fs.existsSync of a directory path
DirExists(w, p) == p = <<>> \/ p \in w.dirs

\* fs.mkdirSync(p, { recursive: true })
MkdirP(w, p) == [w EXCEPT !.dirs = @ \cup Prefixes(p)]

\* fs.rmSync(p, { recursive: true })
RmRecursive(w, p) ==
    [w EXCEPT !.dirs = { d \in @ : ~IsPrefix(p, d) },
              !.deb = Drop(@, { d \in DOMAIN @ : IsPrefix(p, d) }),
              !.meta = Drop(@, { d \in DOMAIN @ : IsPrefix(p, d) }),
              !.idx = Drop(@, { r \in DOMAIN @ : IsPrefix(p, getIndexPath(r)) })]

\* fs.readdirSync(p).length === 0
DirEmpty(w, p) ==
    /\ ~\E d \in w.dirs : Len(d) = Len(p) + 1 /\ IsPrefix(p, d)
    /\ p \notin DOMAIN w.deb
    /\ p \notin DOMAIN w.meta
    /\ ~\E r \in DOMAIN w.idx : getIndexPath(r) = p

----------------------------------------------------------------------------
(* StorageService helpers *)

\* Spreading b over a ({ ...a, ...b }): b's fields are set only when present
Spread(a, b) ==
    [description |-> IF b.description # "" THEN b.description ELSE a.description,
     multiArch |-> IF b.multiArch # "" THEN b.multiArch ELSE a.multiArch,
     installedSize |-> IF b.installedSize # NoSize THEN b.installedSize
                       ELSE a.installedSize]

\* extractDebControl: null when the file is missing or dpkg-deb fails (dpkg
\* tells whether the tool is installed and answers in time), else the fields
\* of the file at that path
extractDebControl(w, dir, dpkg) ==
    IF dir \in DOMAIN w.deb /\ dpkg /\ IsDeb(w.deb[dir])
    THEN [ok |-> TRUE, fields |-> ControlOf(w.deb[dir])]
    ELSE [ok |-> FALSE, fields |-> NoExtra]

\* { ...pkg, ...fields } on a PackageMetadata
SpreadMeta(pkg, fields) ==
    [pkg EXCEPT !.description = Spread(pkg, fields).description,
                !.multiArch = Spread(pkg, fields).multiArch,
                !.installedSize = Spread(pkg, fields).installedSize]

saveIndex(w, repo, index) ==
    LET w1 == IF DirExists(w, getIndexPath(repo)) THEN w
              ELSE MkdirP(w, getIndexPath(repo))
    IN [w1 EXCEPT !.idx = Put(@, repo, index), !.cache = Put(@, repo, index)]

\* The self-heal loop of loadIndex from entry i on: r.index is the index as
\* healed so far, r.w the tree with the metadata.json files rewritten so far.
RECURSIVE HealFrom(_, _, _)
HealFrom(r, i, dpkg) ==
    IF i > Len(r.index) THEN r
    ELSE LET pkg == r.index[i]
             dir == getPackagePath(pkg)
             ex == extractDebControl(r.w, dir, dpkg)
         IN IF pkg.description = "" /\ ex.ok
            THEN LET healedPkg == SpreadMeta(pkg, ex.fields)
                     \* writeFileSync(metaPath) in try/catch: best-effort
                     w1 == IF DirExists(r.w, dir)
                           THEN [r.w EXCEPT !.meta = Put(@, dir, healedPkg)]
                           ELSE r.w
                 IN HealFrom([w |-> w1,
                              index |-> [r.index EXCEPT ![i] = healedPkg],
                              healed |-> TRUE], i + 1, dpkg)
            ELSE HealFrom(r, i + 1, dpkg)

\* loadIndex reading and healing index.json on every call
loadIndexEveryTime(w, repo, dpkg) ==
    IF repo \in DOMAIN w.idx
    THEN LET h == HealFrom([w |-> w, index |-> w.idx[repo], healed |-> FALSE],
                           1, dpkg)
         IN IF h.healed
            THEN [w |-> saveIndex(h.w, repo, h.index), index |-> h.index]
            ELSE [w |-> [h.w EXCEPT !.cache = Put(@, repo, h.index)],
                  index |-> h.index]
    ELSE [w |-> [w EXCEPT !.cache = Put(@, repo, <<>>)], index |-> <<>>]

\* loadIndex: the cached index, else index.json healed, else a new empty
\* index; r.w is the tree and cache afterwards, r.index the index returned.
loadIndex(w, repo, dpkg) ==
    IF repo \in DOMAIN w.cache
    THEN [w |-> w, index |-> w.cache[repo]]
    ELSE IF repo \in DOMAIN w.idx
    THEN LET h == HealFrom([w |-> w, index |-> w.idx[repo], healed |-> FALSE],
                           1, dpkg)
         IN IF h.healed
            THEN [w |-> saveIndex(h.w, repo, h.index), index |-> h.index]
            ELSE [w |-> [h.w EXCEPT !.cache = Put(@, repo, h.index)],
                  index |-> h.index]
    ELSE [w |-> [w EXCEPT !.cache = Put(@, repo, <<>>)], index |-> <<>>]

\* The predicate of both findIndex calls: the five keys of an index entry
SameKey(p, loc) ==
    /\ p.name = loc.name
    /\ p.version = loc.version
    /\ p.distribution = loc.distribution
    /\ p.component = loc.component
    /\ p.architecture = loc.architecture

\* Array.prototype.findIndex: the first matching position, 0 when none
\* (the source's -1)
findIndex(index, loc) ==
    IF \E i \in 1..Len(index) : SameKey(index[i], loc)
    THEN CHOOSE i \in 1..Len(index) :
            /\ SameKey(index[i], loc)
            /\ \A j \in 1..(i - 1) : ~SameKey(index[j], loc)
    ELSE 0

\* The upsert without its findIndex branch: every store pushes
UpsertAlwaysPush(index, loc, metadata) == Append(index, metadata)

\* The upsert made on a new index instead of the loaded one
UpsertOnEmpty(index, loc, metadata) == <<metadata>>

\* index.packages[existingIdx] = metadata, or push
Upsert(index, loc, metadata) ==
    IF findIndex(index, loc) > 0
    THEN [index EXCEPT ![findIndex(index, loc)] = metadata]
    ELSE Append(index, metadata)

\* index.packages.splice(idx, 1)
Splice(index, idx) ==
    [i \in 1..(Len(index) - 1) |-> IF i < idx THEN index[i] ELSE index[i + 1]]

\* cleanEmptyDirs: remove dir and its ancestors while they are empty,
\* stopping at dataRoot; readdirSync of a missing directory throws and ends
\* the loop
RECURSIVE cleanEmptyDirs(_, _)
cleanEmptyDirs(w, dir) ==
    IF dir = <<>> \/ dir \notin w.dirs \/ ~DirEmpty(w, dir) THEN w
    ELSE cleanEmptyDirs([w EXCEPT !.dirs = @ \ {dir}], Dirname(dir))

\* The PackageMetadata storePackage builds
MkMetadata(loc, fileBuffer, sha256, uploaderKeyId, resolvedExtra, now) ==
    [name |-> loc.name, version |-> loc.version,
     architecture |-> loc.architecture,
     size |-> Len(fileBuffer), sha256 |-> sha256,
     mime |-> "application/vnd.debian.binary-package",
     uploadedAt |-> now, uploaderKeyId |-> uploaderKeyId,
     repo |-> loc.repo, distribution |-> loc.distribution,
     component |-> loc.component,
     description |-> resolvedExtra.description,
     multiArch |-> resolvedExtra.multiArch,
     installedSize |-> resolvedExtra.installedSize]

\* A write of buf at offset 0 of a file holding old
WriteAt0(buf, old) ==
    IF Len(buf) >= Len(old) THEN buf
    ELSE buf \o SubSeq(old, Len(buf) + 1, Len(old))

----------------------------------------------------------------------------
(* StorageService operations *)

EmptyFn == [x \in {} |-> x]

NoRet == [op |-> "none"]

\* Copy a threaded tree back into the variables
Commit(w) ==
    /\ dirs' = w.dirs
    /\ debFiles' = w.deb
    /\ metaFiles' = w.meta
    /\ indexFiles' = w.idx
    /\ indexCache' = w.cache

Without(ts, task) == ts (-) SetToBag({task})

With(ts, task) == ts (+) SetToBag({task})

\* ts with mark applied to each of its calls
MapBag(ts, mark(_)) ==
    LET Marked == { mark(task) : task \in BagToSet(ts) }
        RECURSIVE Sum(_)
        Sum(T) == IF T = {} THEN 0
                  ELSE LET x == CHOOSE y \in T : TRUE IN ts[x] + Sum(T \ {x})
    IN [m \in Marked |-> Sum({ task \in BagToSet(ts) : mark(task) = m })]

\* History: the calls in flight for loc learn that another call for loc
\* has started while they run
Overlapping(ts, loc) ==
    LET Mark(task) == IF task.loc = loc THEN [task EXCEPT !.overlapped = TRUE]
                      ELSE task
    IN MapBag(ts, Mark)

\* A storePackage call made outside any request
NoCaller == [route |-> "none"]

\* storePackage up to its await: the directory is made, the digest computed
\* and the write stream created (its open is queued, not yet performed).
\* caller is the request whose handler awaits the call.
StoreStart(loc, fileBuffer, uploaderKeyId, controlExtra, caller) ==
    /\ BagCardinality(tasks) < MaxTasks
    /\ LET pkgPath == getPackagePath(loc)
           w1 == IF DirExists(World, pkgPath) THEN World
                 ELSE MkdirP(World, pkgPath)
       IN Commit(w1)
    /\ tasks' = With(Overlapping(tasks, loc),
                    [pc |-> "open", loc |-> loc, fileBuffer |-> fileBuffer,
                     uploaderKeyId |-> uploaderKeyId,
                     controlExtra |-> controlExtra,
                     sha256 |-> Sha256(fileBuffer), orphan |-> FALSE,
                     overlapped |-> \E task \in BagToSet(tasks) : task.loc = loc,
                     caller |-> caller])
    /\ ret' = NoRet

StoreBegin(loc, fileBuffer, uploaderKeyId, controlExtra) ==
    StoreStart(loc, fileBuffer, uploaderKeyId, controlExtra, NoCaller)

\* The write stream opens package.deb with flag "w": the file is created or
\* truncated.  When the directory is gone the open fails, the pipeline
\* rejects and storePackage throws.
StoreOpen(task) ==
    /\ task \in BagToSet(tasks)
    /\ task.pc = "open"
    /\ LET pkgPath == getPackagePath(task.loc)
       IN IF DirExists(World, pkgPath)
          THEN /\ debFiles' = Put(debFiles, pkgPath, <<>>)
               /\ tasks' = With(Without(tasks, task), [task EXCEPT !.pc = "write"])
               /\ ret' = NoRet
          ELSE /\ debFiles' = debFiles
               /\ tasks' = Without(tasks, task)
               /\ ret' = [op |-> "storePackage", loc |-> task.loc, ok |-> FALSE]
    /\ UNCHANGED <<dirs, metaFiles, indexFiles, indexCache>>

\* The stream writes its single chunk at offset 0 of the file it opened; a
\* file unlinked since the open takes the bytes with it.
StoreWrite(task) ==
    /\ task \in BagToSet(tasks)
    /\ task.pc = "write"
    /\ LET pkgPath == getPackagePath(task.loc)
       IN debFiles' = IF task.orphan \/ pkgPath \notin DOMAIN debFiles
                      THEN debFiles
                      ELSE Put(debFiles, pkgPath,
                               WriteAt0(task.fileBuffer, debFiles[pkgPath]))
    /\ tasks' = With(Without(tasks, task), [task EXCEPT !.pc = "close"])
    /\ ret' = NoRet
    /\ UNCHANGED <<dirs, metaFiles, indexFiles, indexCache>>

\* What storePackage does to the tree after its await, before the index:
\* the dpkg-deb fallback and metadata.json.  r.ok is FALSE when
\* writeFileSync throws.
StoreMetadata(w, task, dpkg, now) ==
    LET pkgPath == getPackagePath(task.loc)
        extracted == extractDebControl(w, pkgPath, dpkg)
        resolvedExtra == IF task.controlExtra.description = "" /\ extracted.ok
                         THEN Spread(task.controlExtra, extracted.fields)
                         ELSE task.controlExtra
        metadata == MkMetadata(task.loc, task.fileBuffer, task.sha256,
                               task.uploaderKeyId, resolvedExtra, now)
    IN IF DirExists(w, pkgPath)
       THEN [ok |-> TRUE, metadata |-> metadata,
             w |-> [w EXCEPT !.meta = Put(@, pkgPath, metadata)]]
       ELSE [ok |-> FALSE, metadata |-> metadata, w |-> w]

\* Which branch the upsert of storePackage takes: existingIdx >= 0
Replaces(w, loc, dpkg) == findIndex(loadIndex(w, loc.repo, dpkg).index, loc) > 0

\* The index update of storePackage
StoreIndex(w, loc, metadata, dpkg) ==
    LET li == loadIndex(w, loc.repo, dpkg)
    IN saveIndex(li.w, loc.repo, Upsert(li.index, loc, metadata))

\* The stream closes, the await returns and storePackage runs to its end in
\* one turn: fallback extraction, metadata.json, index upsert, index.json.
StoreFinish(task, dpkg, now) ==
    /\ task \in BagToSet(tasks)
    /\ task.pc = "close"
    /\ LET sm == StoreMetadata(World, task, dpkg, now)
       IN IF sm.ok
          THEN /\ Commit(StoreIndex(sm.w, task.loc, sm.metadata, dpkg))
               /\ ret' = [op |-> "storePackage", loc |-> task.loc,
                          ok |-> TRUE, fileBuffer |-> task.fileBuffer,
                          replaced |-> Replaces(sm.w, task.loc, dpkg),
                          overlapped |-> task.overlapped]
          ELSE /\ Commit(World)
               /\ ret' = [op |-> "storePackage", loc |-> task.loc, ok |-> FALSE]
    /\ tasks' = Without(tasks, task)

\* The calls in flight once the tree below p is removed: a stream that has
\* opened a file there now holds an unlinked file
Orphaned(ts, p) ==
    LET Mark(task) ==
            IF task.pc \in {"write", "close"} /\ IsPrefix(p, getPackagePath(task.loc))
            THEN [task EXCEPT !.orphan = TRUE] ELSE task
    IN MapBag(ts, Mark)

\* deletePackage on an existing directory, as a function of the tree
DeleteFrom(w, loc, dpkg) ==
    LET pkgPath == getPackagePath(loc)
        w1 == RmRecursive(w, pkgPath)
        li == loadIndex(w1, loc.repo, dpkg)
        idx == findIndex(li.index, loc)
        w2 == IF idx > 0 THEN saveIndex(li.w, loc.repo, Splice(li.index, idx))
              ELSE li.w
    IN cleanEmptyDirs(w2, Dirname(pkgPath))

deletePackage(loc, dpkg) ==
    IF ~DirExists(World, getPackagePath(loc))
    THEN /\ ret' = [op |-> "deletePackage", loc |-> loc, ok |-> TRUE,
                    value |-> FALSE]
         /\ UNCHANGED <<dirs, debFiles, metaFiles, indexFiles, indexCache, tasks>>
    ELSE /\ Commit(DeleteFrom(World, loc, dpkg))
         /\ tasks' = Orphaned(tasks, getPackagePath(loc))
         /\ ret' = [op |-> "deletePackage", loc |-> loc, ok |-> TRUE,
                    value |-> TRUE]

NoMeta == [name |-> ""]

\* getPackageFile: whether a path (rather than null) is returned
getPackageFile(w, loc) == getPackagePath(loc) \in DOMAIN w.deb

\* getPackageMetadata: metadata.json parsed, NoMeta for null
getPackageMetadata(w, loc) ==
    IF getPackagePath(loc) \in DOMAIN w.meta
    THEN w.meta[getPackagePath(loc)] ELSE NoMeta

\* listRepos: the directories directly below dataRoot
listRepos(w) == { d[1] : d \in { e \in w.dirs : Len(e) = 1 } }

\* The orders readdirSync may list a set of names in
Orders(S) ==
    { o \in [1..Cardinality(S) -> S] :
        \A i, j \in 1..Cardinality(S) : i # j => o[i] # o[j] }

NoFilters == MkLoc("", "", "", "", "", "")

\* The filter of listPackages; an empty (falsy) filter field matches all
Matches(pkg, filters) ==
    /\ filters.distribution # "" => pkg.distribution = filters.distribution
    /\ filters.component # "" => pkg.component = filters.component
    /\ filters.architecture # "" => pkg.architecture = filters.architecture
    /\ filters.name # "" => pkg.name = filters.name
    /\ filters.version # "" => pkg.version = filters.version

\* The loop of listPackages over repos from position i on: r.w the tree and
\* cache as the loadIndex calls leave them, r.results the entries so far
RECURSIVE ListFrom(_, _, _, _, _)
ListFrom(r, repos, i, filters, dpkg) ==
    IF i > Len(repos) THEN r
    ELSE LET li == loadIndex(r.w, repos[i], dpkg)
         IN ListFrom([w |-> li.w,
                      results |-> r.results \o
                          SelectSeq(li.index, LAMBDA pkg : Matches(pkg, filters))],
                     repos, i + 1, filters, dpkg)

\* listPackages as a function of the tree; order is the order readdirSync
\* lists the repos in
ListPackagesFrom(w, filters, order, dpkg) ==
    ListFrom([w |-> w, results |-> <<>>],
             IF filters.repo # "" THEN <<filters.repo>> ELSE order,
             1, filters, dpkg)

listPackages(filters, dpkg) ==
    /\ \E order \in Orders(listRepos(World)) :
         LET r == ListPackagesFrom(World, filters, order, dpkg)
         IN /\ Commit(r.w)
            /\ ret' = NoRet
    /\ UNCHANGED tasks

\* The process dies between two turns and is started again on the same
\* tree: calls in flight are gone, the index cache is empty.
Crash ==
    /\ tasks' = EmptyBag
    /\ indexCache' = EmptyFn
    /\ ret' = NoRet
    /\ UNCHANGED <<dirs, debFiles, metaFiles, indexFiles>>

----------------------------------------------------------------------------
(* API key store: src/src/services/api-keys.ts *)

\* An optional value (undefined in the source): <<>> or <<value>>
None == <<>>
Some(x) == <<x>>

ApiKeyRoles == {"admin", "write", "read"}

\* ApiKeyData: scope is None or Some([repos, distributions]), where each list
\* is None or Some(set of names); lastUsed is None or Some(instant)
MkKey(id, hash, role, scope, lastUsed) ==
    [id |-> id, hash |-> hash, role |-> role, scope |-> scope,
     lastUsed |-> lastUsed]

MkScope(repos, distributions) ==
    Some([repos |-> repos, distributions |-> distributions])

\* The roleHierarchy with write ranked as admin
roleHierarchyWriteIsAdmin == [admin |-> 3, write |-> 3, read |-> 1]

roleHierarchy == [admin |-> 3, write |-> 2, read |-> 1]

\* hasPermission(keyData, requiredRole, repo?, distribution?): an absent repo
\* or distribution is "", which the source's truthiness tests treat alike
hasPermission(keyData, requiredRole, repo, distribution) ==
    IF roleHierarchy[keyData.role] < roleHierarchy[requiredRole]
    THEN FALSE
    ELSE IF keyData.scope # None
         THEN LET scope == keyData.scope[1] IN
              IF repo # "" /\ scope.repos # None /\ repo \notin scope.repos[1]
              THEN FALSE
              ELSE IF /\ distribution # ""
                      /\ scope.distributions # None
                      /\ distribution \notin scope.distributions[1]
                   THEN FALSE
                   ELSE TRUE
         ELSE TRUE

\* The bootstrap admin secret of the configuration (POSITORY_ADMIN_KEY)
adminKey == Some("admin-secret")

\* crypto.randomBytes: the id and the secret of the n-th key generated, each
\* unlike every other
KeyNames == <<"k1", "k2", "k3">>
IdOf(n) == KeyNames[n]
SecretOf(n) == "secret-" \o KeyNames[n]

\* argon2.hash(key), and argon2.verify(hash, key): true for the hashed key only
Argon2Hash(key) == <<"argon2", key>>
Argon2VerifyAnyKey(hash, key) == TRUE
Argon2Verify(hash, key) == hash = Argon2Hash(key)

\* save(): the whole list is written to the key file
save(ks) == Some(ks)

\* createKey(role, description, scope) once argon2.hash has resolved: the key
\* is appended and the list saved
createKey(ks, n, role, scope) ==
    ks \o <<MkKey(IdOf(n), Argon2Hash(SecretOf(n)), role, scope, None)>>

\* deleteKey(id): findIndex and splice; r.deleted is the return value
deleteKey(ks, id) ==
    IF \E i \in 1..Len(ks) : ks[i].id = id
    THEN LET index == CHOOSE i \in 1..Len(ks) :
                          ks[i].id = id /\ \A j \in 1..(i - 1) : ks[j].id # id
         IN [deleted |-> TRUE,
             keys |-> SubSeq(ks, 1, index - 1) \o SubSeq(ks, index + 1, Len(ks))]
    ELSE [deleted |-> FALSE, keys |-> ks]

\* listKeys() returning the stored records whole
listKeysWithHash(ks) == ks

\* listKeys(): every key without its hash
listKeys(ks) ==
    [i \in 1..Len(ks) |->
        [id |-> ks[i].id, role |-> ks[i].role, scope |-> ks[i].scope,
         lastUsed |-> ks[i].lastUsed]]

\* The identity validateKey synthesizes for the bootstrap admin secret
BootstrapAdmin == MkKey("admin", "", "admin", None, None)

\* load(): the list of the key file, the empty list when there is no file
load(kf) == IF kf = None THEN <<>> ELSE kf[1]

\* validateKey stamping the key it verified in the list as it was when the
\* loop read it: a key deleted since is put back
TouchDeleted(ks, id, now) ==
    IF \E i \in 1..Len(ks) : ks[i].id = id
    THEN [i \in 1..Len(ks) |->
            IF ks[i].id = id THEN [ks[i] EXCEPT !.lastUsed = Some(now)]
            ELSE ks[i]]
    ELSE ks \o << [id |-> id, hash |-> <<"argon2", "secret-" \o id>>,
                   role |-> "read", scope |-> None, lastUsed |-> Some(now)] >>

\* keyData.lastUsed = now on the key object validateKey has verified: the
\* object is the list's element of that id, when the list still holds it
Touch(ks, id, now) ==
    [i \in 1..Len(ks) |->
        IF ks[i].id = id THEN [ks[i] EXCEPT !.lastUsed = Some(now)] ELSE ks[i]]

\* How many stored hashes the loop of validateKey hands to argon2.verify for
\* key: up to the first that verifies, else all
VerifiedUpTo(ks, key) ==
    IF \E i \in 1..Len(ks) : Argon2Verify(ks[i].hash, key)
    THEN CHOOSE i \in 1..Len(ks) :
            /\ Argon2Verify(ks[i].hash, key)
            /\ \A j \in 1..(i - 1) : ~Argon2Verify(ks[j].hash, key)
    ELSE Len(ks)

\* validateKey looking through the stored keys before it compares the
\* bootstrap admin secret
validateKeyStoreFirst(ks, key, now) ==
    IF \E i \in 1..Len(ks) : Argon2Verify(ks[i].hash, key)
    THEN LET first == VerifiedUpTo(ks, key)
         IN [result |-> Some([ks[first] EXCEPT !.lastUsed = Some(now)]),
             keys |-> Touch(ks, ks[first].id, now), saved |-> TRUE,
             verified |-> first]
    ELSE IF adminKey # None /\ key = adminKey[1]
    THEN [result |-> Some(BootstrapAdmin), keys |-> ks, saved |-> FALSE,
          verified |-> Len(ks)]
    ELSE [result |-> None, keys |-> ks, saved |-> FALSE, verified |-> Len(ks)]

\* validateKey(key) run with no other call of the service between its
\* awaits: r.result is the return value, None for null, r.keys the list
\* afterwards, r.saved whether save() ran and r.verified the number of
\* argon2.verify calls made
validateKey(ks, key, now) ==
    IF adminKey # None /\ key = adminKey[1]
    THEN [result |-> Some(BootstrapAdmin), keys |-> ks, saved |-> FALSE,
          verified |-> 0]
    ELSE IF \E i \in 1..Len(ks) : Argon2Verify(ks[i].hash, key)
    THEN LET first == VerifiedUpTo(ks, key)
         IN [result |-> Some([ks[first] EXCEPT !.lastUsed = Some(now)]),
             keys |-> Touch(ks, ks[first].id, now), saved |-> TRUE,
             verified |-> first]
    ELSE [result |-> None, keys |-> ks, saved |-> FALSE, verified |-> Len(ks)]

----------------------------------------------------------------------------
(* Path components and names: src/src/services/debian-validator.ts *)

\* Strings are sequences of one-character strings
CharAt(s, i) == SubSeq(s, i, i)
Tail1(s) == SubSeq(s, 2, Len(s))

LowerChars == "abcdefghijklmnopqrstuvwxyz"
UpperChars == "ABCDEFGHIJKLMNOPQRSTUVWXYZ"
DigitChars == "0123456789"

CharsOf(s) == { CharAt(s, i) : i \in 1..Len(s) }
IsLower(c) == c \in CharsOf(LowerChars)
IsUpper(c) == c \in CharsOf(UpperChars)
IsDigit(c) == c \in CharsOf(DigitChars)

\* String.prototype.toLowerCase on ASCII
LowerOf(c) ==
    IF IsUpper(c)
    THEN CharAt(LowerChars, CHOOSE i \in 1..Len(UpperChars) : CharAt(UpperChars, i) = c)
    ELSE c

RECURSIVE ToLowerCase(_)
ToLowerCase(s) ==
    IF s = "" THEN "" ELSE LowerOf(CharAt(s, 1)) \o ToLowerCase(Tail1(s))

\* .replace(/[/\\]/g, "")
RECURSIVE StripSeparators(_)
StripSeparators(s) ==
    IF s = "" THEN ""
    ELSE (IF CharAt(s, 1) \in {"/", "\\"} THEN "" ELSE CharAt(s, 1))
         \o StripSeparators(Tail1(s))

\* .replace(/\.\./g, ""): the matches left to right, none overlapping
RECURSIVE StripDotDot(_)
StripDotDot(s) ==
    IF Len(s) < 2 THEN s
    ELSE IF SubSeq(s, 1, 2) = ".." THEN StripDotDot(SubSeq(s, 3, Len(s)))
    ELSE CharAt(s, 1) \o StripDotDot(Tail1(s))

\* .replace(/^\.+/, "")
RECURSIVE StripLeadingDots(_)
StripLeadingDots(s) ==
    IF s # "" /\ CharAt(s, 1) = "." THEN StripLeadingDots(Tail1(s)) ELSE s

\* sanitizePath without its second replace
sanitizePathKeepDotDot(component) ==
    StripLeadingDots(StripSeparators(component))

sanitizePath(component) ==
    StripLeadingDots(StripDotDot(StripSeparators(component)))

\* /^[a-z0-9][a-z0-9+.-]*$/i
isValidPackageName(name) ==
    /\ name # ""
    /\ LET c == LowerOf(CharAt(name, 1)) IN IsLower(c) \/ IsDigit(c)
    /\ \A i \in 2..Len(name) :
         LET c == LowerOf(CharAt(name, i)) IN
         IsLower(c) \/ IsDigit(c) \/ c \in {"+", ".", "-"}

\* /^[a-z0-9][a-z0-9.+~:-]*$/i
isValidVersion(version) ==
    /\ version # ""
    /\ LET c == LowerOf(CharAt(version, 1)) IN IsLower(c) \/ IsDigit(c)
    /\ \A i \in 2..Len(version) :
         LET c == LowerOf(CharAt(version, i)) IN
         IsLower(c) \/ IsDigit(c) \/ c \in {".", "+", "~", ":", "-"}

validArches ==
    {"all", "any", "amd64", "i386", "arm64", "armhf", "armel", "mips64el",
     "mipsel", "ppc64el", "riscv64", "s390x"}

\* validArches.includes(arch.toLowerCase()) || /^[a-z][a-z0-9-]*$/.test(arch)
isValidArchitecture(arch) ==
    \/ ToLowerCase(arch) \in validArches
    \/ /\ arch # ""
       /\ IsLower(CharAt(arch, 1))
       /\ \A i \in 2..Len(arch) :
            LET c == CharAt(arch, i) IN IsLower(c) \/ IsDigit(c) \/ c = "-"

EndsWithDeb(s) == Len(s) >= 4 /\ SubSeq(s, Len(s) - 3, Len(s)) = ".deb"

\* filename.match(/^(.+?)_(.+?)\.deb$/): None, or the two groups.  The lazy
\* first group ends before the first "_" that leaves a non-empty second
\* group in front of the final ".deb"
MatchNameVersion(filename) ==
    LET n == Len(filename)
        cuts == { i \in 1..n : /\ i + 1 <= n
                               /\ CharAt(filename, i + 1) = "_"
                               /\ n - (i + 1) >= 5 }
    IN IF EndsWithDeb(filename) /\ cuts # {}
       THEN LET i == CHOOSE c \in cuts : \A d \in cuts : c <= d
            IN Some(<<SubSeq(filename, 1, i), SubSeq(filename, i + 2, n - 4)>>)
       ELSE None

\* filename.match(/^(.+?)_(.+?)_(.+?)\.deb$/): None, or the three groups
MatchNameVersionArch(filename) ==
    LET n == Len(filename)
        \* <<i, j>>: group 1 is 1..i, group 2 is i+2..j, group 3 is j+2..n-4
        ends == { i \in 1..(n - 1) : CharAt(filename, i + 1) = "_" }
        cuts == { c \in ends \X ends :
                    /\ c[2] >= c[1] + 2
                    /\ n - (c[2] + 1) >= 5 }
    IN IF EndsWithDeb(filename) /\ cuts # {}
       THEN LET c == CHOOSE c \in cuts :
                        \A d \in cuts : c[1] < d[1] \/ (c[1] = d[1] /\ c[2] <= d[2])
            IN Some(<<SubSeq(filename, 1, c[1]),
                      SubSeq(filename, c[1] + 2, c[2]),
                      SubSeq(filename, c[2] + 2, n - 4)>>)
       ELSE None

----------------------------------------------------------------------------
(* Readers of the package routes: src/src/routes/packages.ts *)

Md5(bytes) == <<"md5", bytes>>

\* The handler of GET /repo/:distribution/:component/:architecture/:filename
\* once the location is resolved: 404 without package.deb, else the
\* X-Checksum-Sha256 header from metadata.json (when it has one) and the
\* bytes of package.deb as the body
DownloadHandler(w, loc) ==
    LET metadata == getPackageMetadata(w, loc)
    IN IF ~getPackageFile(w, loc)
       THEN [status |-> 404, checksum |-> None, body |-> <<>>]
       ELSE [status |-> 200,
             checksum |-> IF metadata # NoMeta THEN Some(metadata.sha256)
                          ELSE None,
             body |-> w.deb[getPackagePath(loc)]]

\* A Filename line with the version and the architecture exchanged
PoolFilenameArchFirst(pkg) ==
    "pool/" \o pkg.distribution \o "/" \o pkg.component \o "/"
        \o pkg.architecture \o "/" \o pkg.name \o "_" \o pkg.architecture
        \o "_" \o pkg.version \o ".deb"

\* The Filename line of a stanza: the path below /apt/<repo>/ the package is
\* downloaded from
PoolFilename(pkg) ==
    "pool/" \o pkg.distribution \o "/" \o pkg.component \o "/"
        \o pkg.architecture \o "/" \o pkg.name \o "_" \o pkg.version \o "_"
        \o pkg.architecture \o ".deb"

\* The stanza generatePackagesContent writes for an index entry: the lines
\* taken from the entry (Multi-Arch, Installed-Size and Description only when
\* the entry has the field; None for a line left out) and the MD5sum of the
\* file now on disk (no line when the file cannot be read)
PackagesStanza(w, pkg) ==
    LET debPath == getPackagePath(pkg) IN
    [name |-> pkg.name, version |-> pkg.version,
     architecture |-> pkg.architecture,
     multiArch |-> IF pkg.multiArch # "" THEN Some(pkg.multiArch) ELSE None,
     installedSize |-> IF pkg.installedSize # NoSize
                       THEN Some(pkg.installedSize) ELSE None,
     filename |-> PoolFilename(pkg),
     size |-> pkg.size, sha256 |-> pkg.sha256,
     md5sum |-> IF debPath \in DOMAIN w.deb THEN Some(Md5(w.deb[debPath]))
                ELSE None,
     description |-> IF pkg.description # "" THEN pkg.description
                     ELSE pkg.name \o " " \o pkg.version]

\* generatePackagesContent: the stanzas of the entries, in their order
generatePackagesContent(w, packages) ==
    [i \in 1..Len(packages) |-> PackagesStanza(w, packages[i])]

\* Buffer.from(content, "utf-8").length, kept symbolic: equal contents have
\* equal lengths
ByteLength(content) == <<"length", content>>

\* s.includes(sub)
Contains(s, sub) ==
    \E i \in 1..(Len(s) - Len(sub) + 1) : SubSeq(s, i, i + Len(sub) - 1) = sub

\* s.replace(sub, ""): the first occurrence is removed
RemoveFirst(s, sub) ==
    IF ~Contains(s, sub) THEN s
    ELSE LET i == CHOOSE k \in 1..(Len(s) - Len(sub) + 1) :
                     /\ SubSeq(s, k, k + Len(sub) - 1) = sub
                     /\ \A j \in 1..(k - 1) : SubSeq(s, j, j + Len(sub) - 1) # sub
         IN SubSeq(s, 1, i - 1) \o SubSeq(s, i + Len(sub), Len(s))

\* Array.from(new Set(s)): the first occurrence of each element, in order
RECURSIVE Distinct(_)
Distinct(s) ==
    IF s = <<>> THEN <<>>
    ELSE LET r == Distinct(SubSeq(s, 1, Len(s) - 1))
             x == s[Len(s)]
         IN IF \E i \in 1..Len(r) : r[i] = x THEN r ELSE Append(r, x)

\* The architectures of a Release: the native ones of the entries, and amd64
ReleaseArchitectures(packages) ==
    LET native == SelectSeq(packages, LAMBDA p : p.architecture # "all")
    IN Distinct([i \in 1..Len(native) |-> native[i].architecture] \o <<"amd64">>)

ReleaseComponents(packages) ==
    Distinct([i \in 1..Len(packages) |-> packages[i].component])

\* The entries that go into <component>/binary-<arch>/Packages
PkgsForArch(packages, component, arch) ==
    SelectSeq(packages, LAMBDA p : /\ p.component = component
                                   /\ p.architecture \in {arch, "all"})

\* A line of hashLines: " <digest> <size> <relPath>", with " (SHA256)" at
\* the end of the SHA-256 one; rest is the text after the size
HashLines(w, packages) ==
    LET components == ReleaseComponents(packages)
        architectures == ReleaseArchitectures(packages)
        na == Len(architectures)
        RECURSIVE From(_)
        From(k) ==
            IF k > Len(components) * na THEN <<>>
            ELSE LET component == components[((k - 1) \div na) + 1]
                     arch == architectures[((k - 1) % na) + 1]
                     pkgsForArch == PkgsForArch(packages, component, arch)
                     content == generatePackagesContent(w, pkgsForArch)
                     relPath == component \o "/binary-" \o arch \o "/Packages"
                 IN IF pkgsForArch = <<>> THEN From(k + 1)
                    ELSE << [digest |-> Md5(content),
                             size |-> ByteLength(content),
                             rest |-> " " \o relPath],
                            [digest |-> Sha256(content),
                             size |-> ByteLength(content),
                             rest |-> " " \o relPath \o " (SHA256)"] >>
                         \o From(k + 1)
    IN From(1)

\* generateReleaseContent: the header fields and the two checksum sections,
\* which the lines of hashLines are sorted into by their text
generateReleaseContent(w, repo, distribution, packages, now) ==
    LET hashLines == HashLines(w, packages)
        tagged == SelectSeq(hashLines, LAMBDA l : Contains(l.rest, "(SHA256)"))
    IN [suite |-> distribution,
        codename |-> "pository-" \o repo \o "-" \o distribution,
        date |-> now,
        architectures |-> ReleaseArchitectures(packages),
        components |-> ReleaseComponents(packages),
        md5Sum |-> SelectSeq(hashLines,
                             LAMBDA l : ~Contains(l.rest, "(SHA256)")),
        sha256 |-> [i \in 1..Len(tagged) |->
                       [tagged[i] EXCEPT
                           !.rest = RemoveFirst(@, " (SHA256)")]]]

\* The handlers of registerAptRoutes on the parameters a of the route: the
\* status and body of the reply, and the tree and cache as listPackages
\* leaves them
AptReleaseHandler(w, a, dpkg, now) ==
    LET r == ListPackagesFrom(w, MkLoc(a[1], a[2], "", "", "", ""), <<>>, dpkg)
    IN [status |-> 200, w |-> r.w,
        body |-> generateReleaseContent(r.w, a[1], a[2], r.results, now)]

\* The Packages route without the Architecture: all entries
AptPackagesExactArch(w, a, dpkg) ==
    LET r == ListPackagesFrom(w, MkLoc(a[1], a[2], a[3], "", "", ""), <<>>, dpkg)
    IN [status |-> 200, w |-> r.w,
        body |-> generatePackagesContent(r.w,
                     SelectSeq(r.results, LAMBDA p : p.architecture = a[4]))]

AptPackagesHandler(w, a, dpkg) ==
    LET r == ListPackagesFrom(w, MkLoc(a[1], a[2], a[3], "", "", ""), <<>>, dpkg)
    IN [status |-> 200, w |-> r.w,
        body |-> generatePackagesContent(r.w,
                     SelectSeq(r.results,
                               LAMBDA p : p.architecture \in {a[4], "all"}))]

AptPoolHandler(w, a) ==
    LET match == MatchNameVersionArch(a[5]) IN
    IF match = None THEN [status |-> 400, w |-> w, body |-> <<>>]
    ELSE LET debPath == PathJoin(<<a[1], a[2], a[3], a[4],
                                   match[1][1], match[1][2]>>)
         IN IF debPath \notin DOMAIN w.deb
            THEN [status |-> 404, w |-> w, body |-> <<>>]
            ELSE [status |-> 200, w |-> w, body |-> w.deb[debPath]]

----------------------------------------------------------------------------
(* Configuration: src/src/config.ts *)

maxUploadSize == 104857600
allowedRepos == {"default"}
oidcAllowedOwners == {"rsxdalv"}
oidcRequirePrivate == TRUE
\* oidcOverrides: repository -> the package names it may upload
oidcOverrides == EmptyFn

\* The part of Config the upload route and isOidcAllowed read
MkConfig(maxSize, repos, owners, requirePrivate, overrides) ==
    [maxUploadSize |-> maxSize, allowedRepos |-> repos,
     oidcAllowedOwners |-> owners, oidcRequirePrivate |-> requirePrivate,
     oidcOverrides |-> overrides]

defaultConfig ==
    MkConfig(maxUploadSize, allowedRepos, oidcAllowedOwners,
             oidcRequirePrivate, oidcOverrides)

----------------------------------------------------------------------------
(* Workload identity: src/src/middleware/oidc-auth.ts, *)
(* src/src/services/oidc-scope.ts                      *)

MkClaims(repository, visibility, event) ==
    [repository |-> repository, repository_visibility |-> visibility,
     event_name |-> event]

\* The tokens clients hold: one GitHub signed for a push in the private
\* repository rsxdalv/hello; any other string is no valid token
HelloToken == "token-rsxdalv-hello"

\* verifyGitHubOIDC(token, audience): the claims, or None when it rejects;
\* jwks tells whether the signing key could be fetched
verifyGitHubOIDC(token, jwks) ==
    IF jwks /\ token = HelloToken
    THEN Some(MkClaims("rsxdalv/hello", "private", "push"))
    ELSE None

SlashesOf(s) == { i \in 1..Len(s) : CharAt(s, i) = "/" }
MinOf(S) == CHOOSE x \in S : \A y \in S : x <= y

\* const [owner, repoName] = repository.split("/"); repoName is None when
\* the string has no "/"
OwnerOf(repository) ==
    IF SlashesOf(repository) = {} THEN repository
    ELSE SubSeq(repository, 1, MinOf(SlashesOf(repository)) - 1)

RepoNameOf(repository) ==
    LET slashes == SlashesOf(repository) IN
    IF slashes = {} THEN None
    ELSE LET first == MinOf(slashes)
             later == slashes \ {first}
         IN Some(SubSeq(repository, first + 1,
                        IF later = {} THEN Len(repository) ELSE MinOf(later) - 1))

\* OidcAuthzResult: reason is None when allowed
Allowed == [allowed |-> TRUE, reason |-> None]
Denied(reason) == [allowed |-> FALSE, reason |-> Some(reason)]

\* isOidcAllowed with the overrides consulted before the event
OidcAuthzOverridesFirst(claims, packageName, config) ==
    IF claims.repository \in DOMAIN config.oidcOverrides
       /\ "*" \in config.oidcOverrides[claims.repository]
    THEN Allowed
    ELSE IF claims.event_name = "pull_request"
    THEN Denied("pull_request events are not permitted")
    ELSE IF OwnerOf(claims.repository) \notin config.oidcAllowedOwners
    THEN Denied("owner is not in oidcAllowedOwners")
    ELSE IF RepoNameOf(claims.repository) # Some(packageName)
    THEN Denied("repo name does not match package")
    ELSE Allowed

\* isOidcAllowed without the visibility rule
OidcAuthzAnyVisibility(claims, packageName, config) ==
    IF claims.event_name = "pull_request"
    THEN Denied("pull_request events are not permitted")
    ELSE IF claims.repository \in DOMAIN config.oidcOverrides
    THEN IF "*" \in config.oidcOverrides[claims.repository]
            \/ packageName \in config.oidcOverrides[claims.repository]
         THEN Allowed
         ELSE Denied("override does not include package")
    ELSE IF OwnerOf(claims.repository) \notin config.oidcAllowedOwners
    THEN Denied("owner is not in oidcAllowedOwners")
    ELSE IF RepoNameOf(claims.repository) # Some(packageName)
    THEN Denied("repo name does not match package")
    ELSE Allowed

\* isOidcAllowed(claims, packageName, config): an override entry is a set of
\* package names, "*" among them for any
OidcAuthz(claims, packageName, config) ==
    IF claims.event_name = "pull_request"
    THEN Denied("pull_request events are not permitted")
    ELSE IF claims.repository \in DOMAIN config.oidcOverrides
    THEN IF "*" \in config.oidcOverrides[claims.repository]
            \/ packageName \in config.oidcOverrides[claims.repository]
         THEN Allowed
         ELSE Denied("override does not include package")
    ELSE IF OwnerOf(claims.repository) \notin config.oidcAllowedOwners
    THEN Denied("owner is not in oidcAllowedOwners")
    ELSE IF config.oidcRequirePrivate /\ claims.repository_visibility # "private"
    THEN Denied("visibility is not private")
    ELSE IF RepoNameOf(claims.repository) # Some(packageName)
    THEN Denied("repo name does not match package")
    ELSE Allowed

\* isOidcAllowed(claims, packageName, config).allowed under the defaults
isOidcAllowed(claims, packageName) ==
    OidcAuthz(claims, packageName, defaultConfig).allowed

----------------------------------------------------------------------------
(* Requests: the routes of src/src/routes/packages.ts, keys.ts (with the  *)
(* health routes) and the request fields the handlers read                *)

RouteHealthz == "GET /healthz"
RouteReadyz == "GET /readyz"
RouteMetrics == "GET /metrics"
RouteUploadPackage == "POST /api/v1/packages"
RouteListPackages == "GET /api/v1/packages"
RouteGetPackage == "GET /api/v1/packages/:repo/:distribution/:component/:architecture/:name/:version"
RouteDownloadPackage == "GET /repo/:distribution/:component/:architecture/:filename"
RouteDeletePackage == "DELETE /api/v1/packages/:repo/:distribution/:component/:architecture/:name/:version"
RouteCreateKey == "POST /api/v1/keys"
RouteListKeys == "GET /api/v1/keys"
RouteDeleteKey == "DELETE /api/v1/keys/:id"
RouteAptRelease == "GET /apt/:repo/dists/:distribution/Release"
RouteAptPackages == "GET /apt/:repo/dists/:distribution/:component/binary-:arch/Packages"
RouteAptPool == "GET /apt/:repo/pool/:distribution/:component/:arch/:filename"

HealthRoutes == {RouteHealthz, RouteReadyz, RouteMetrics}
PackageRoutes ==
    {RouteUploadPackage, RouteListPackages, RouteGetPackage, RouteDownloadPackage, RouteDeletePackage}
KeyRoutes == {RouteCreateKey, RouteListKeys, RouteDeleteKey}
AptRoutes == {RouteAptRelease, RouteAptPackages, RouteAptPool}
Routes == HealthRoutes \cup PackageRoutes \cup KeyRoutes \cup AptRoutes

\* A request body: the multipart parts of an upload (file is None or
\* Some([filename, data]); a form field is None when the part is absent) and
\* the JSON members of a key creation
MkBody(file, repo, distribution, component, architecture, role, scope) ==
    [file |-> file, repo |-> repo, distribution |-> distribution,
     component |-> component, architecture |-> architecture,
     role |-> role, scope |-> scope]

NoBody == MkBody(None, None, None, None, None, "", None)

MkFile(filename, data) == Some([filename |-> filename, data |-> data])

\* A request: its route, the query string of its URL, the Authorization
\* bearer token and the X-Api-Key header (None when absent), the route
\* parameters in the order of the route (for the list route the six query
\* filters, "" when absent) and the body
MkRequest(route, query, bearer, xApiKey, params, body) ==
    [route |-> route, query |-> query, bearer |-> bearer,
     xApiKey |-> xApiKey, params |-> params, body |-> body]

RECURSIVE JoinSlash(_)
JoinSlash(parts) ==
    IF parts = <<>> THEN "" ELSE "/" \o Head(parts) \o JoinSlash(Tail(parts))

\* request.url
Url(req) ==
    LET a == req.params
        path ==
          CASE req.route = RouteHealthz -> "/healthz"
            [] req.route = RouteReadyz -> "/readyz"
            [] req.route = RouteMetrics -> "/metrics"
            [] req.route \in {RouteUploadPackage, RouteListPackages} -> "/api/v1/packages"
            [] req.route \in {RouteGetPackage, RouteDeletePackage} ->
                 "/api/v1/packages" \o JoinSlash(a)
            [] req.route = RouteDownloadPackage -> "/repo" \o JoinSlash(a)
            [] req.route \in {RouteCreateKey, RouteListKeys} -> "/api/v1/keys"
            [] req.route = RouteDeleteKey -> "/api/v1/keys" \o JoinSlash(a)
            [] req.route = RouteAptRelease ->
                 "/apt/" \o a[1] \o "/dists/" \o a[2] \o "/Release"
            [] req.route = RouteAptPackages ->
                 "/apt/" \o a[1] \o "/dists/" \o a[2] \o "/" \o a[3]
                    \o "/binary-" \o a[4] \o "/Packages"
            [] req.route = RouteAptPool ->
                 "/apt/" \o a[1] \o "/pool" \o JoinSlash(Tail(a))
    IN path \o req.query

\* A response: the request it answers, without parameters and body, and
\* the status code
NoResp == [route |-> "none"]

Response(caller, status) ==
    [route |-> caller.route, query |-> caller.query, bearer |-> caller.bearer,
     xApiKey |-> caller.xApiKey, status |-> status]

----------------------------------------------------------------------------
(* Route handlers.  A handler maps the request, the identity the hook has *)
(* attached and the state to an outcome: the status it replies with - 0   *)
(* while it awaits storePackage - and the state it leaves.                *)

\* The services' state a handler works on
Services(w, ks, kf, n) == [w |-> w, keys |-> ks, keysFile |-> kf, issued |-> n]

\* An outcome that calls neither storePackage nor deletePackage
Reply(status, sv) ==
    [status |-> status, sv |-> sv, store |-> None, deleted |-> None,
     ret |-> NoRet]

\* A file that is no ar archive
NotDeb == <<0>>

\* An ar archive as validateDebianPackage reads it: whether the buffer
\* starts with "!<arch>\n", and what follows in order.  An item is a member
\* (its header name trimmed, its data) or, with ok FALSE, a header the loop
\* cannot read: fewer than 60 bytes left, a size field that is not a number,
\* or a size that runs past the end of the buffer.
MkAr(magic, items) == [magic |-> magic, items |-> items]
Member(name, data) == [name |-> name, data |-> data, ok |-> TRUE]
BadHeader == [name |-> "", data |-> "", ok |-> FALSE]

\* The while loop over the headers: it breaks at the first header it cannot
\* read and keeps the entries pushed before
ArEntries(items) ==
    IF \E i \in 1..Len(items) : ~items[i].ok
    THEN SubSeq(items, 1,
                (CHOOSE i \in 1..Len(items) :
                    ~items[i].ok /\ \A j \in 1..(i - 1) : items[j].ok) - 1)
    ELSE items

\* String.prototype.trim for blanks and line feeds
RECURSIVE Trim(_)
Trim(s) ==
    IF s = "" THEN s
    ELSE IF SubSeq(s, 1, 1) \in {" ", "\n"} THEN Trim(SubSeq(s, 2, Len(s)))
    ELSE IF SubSeq(s, Len(s), Len(s)) \in {" ", "\n"}
    THEN Trim(SubSeq(s, 1, Len(s) - 1))
    ELSE s

EndsWith(s, suffix) ==
    Len(s) >= Len(suffix) /\ SubSeq(s, Len(s) - Len(suffix) + 1, Len(s)) = suffix

\* entries.find((e) => e.name.startsWith(prefix)): the first such entry,
\* None for undefined
Find(entries, prefix) ==
    LET hits == { i \in 1..Len(entries) : IsPrefix(prefix, entries[i].name) }
    IN IF hits = {} THEN None
       ELSE Some(entries[CHOOSE i \in hits : \A j \in hits : i <= j])

\* The control fields of the package hello
HelloControl == [Package |-> "hello", Version |-> "1.0", Architecture |-> "amd64"]

\* extractControlFile(data, name): gunzip and the tar reader give the control
\* file of a gzip member that holds one ("gz:hello") and throw or find none on
\* other data; xz and zstd members are not read; any other member is read as
\* a plain tar ("tar:hello")
extractControlFile(data, name) ==
    IF EndsWith(name, ".gz")
    THEN IF data = "gz:hello" THEN Some(HelloControl) ELSE None
    ELSE IF EndsWith(name, ".xz") THEN None
    ELSE IF EndsWith(name, ".zst") THEN None
    ELSE IF data = "tar:hello" THEN Some(HelloControl) ELSE None

Invalid(error) == [valid |-> FALSE, control |-> None, error |-> error]

\* validateDebianPackage on the archive of a buffer
validateAr(ar) ==
    IF ~ar.magic THEN Invalid("Invalid ar archive: missing magic header")
    ELSE
    LET entries == ArEntries(ar.items)
        debianBinary == Find(entries, "debian-binary")
        controlEntry == Find(entries, "control.tar")
        dataEntry == Find(entries, "data.tar")
    IN IF debianBinary = None
       THEN Invalid("Not a Debian package: missing debian-binary")
       ELSE IF ~IsPrefix("2.", Trim(debianBinary[1].data))
       THEN Invalid("Unsupported Debian package format: "
                        \o Trim(debianBinary[1].data))
       ELSE IF controlEntry = None
       THEN Invalid("Not a Debian package: missing control.tar")
       ELSE IF dataEntry = None
       THEN Invalid("Not a Debian package: missing data.tar")
       ELSE [valid |-> TRUE,
             control |-> extractControlFile(controlEntry[1].data,
                                            controlEntry[1].name),
             error |-> ""]

\* The archives of the package files: debian-binary, a control archive
\* compressed as the file's name says, a data archive; NotDeb has no magic
ArOf(buffer) ==
    LET Deb(controlName, controlData) ==
            MkAr(TRUE, << Member("debian-binary", "2.0\n"),
                          Member(controlName, controlData),
                          Member("data.tar.xz", "xz") >>)
    IN IF buffer = DebGz THEN Deb("control.tar.gz", "gz:hello")
       ELSE IF buffer = DebXz THEN Deb("control.tar.xz", "xz")
       ELSE IF buffer = DebZst THEN Deb("control.tar.zst", "zst")
       ELSE MkAr(FALSE, <<>>)

\* validateDebianPackage(buffer) on the package files, whose archives are
\* ArOf(buffer): the gzip one yields its control fields, the xz and zstd ones
\* are valid without them, any other buffer lacks the magic header
validateDebianPackage(buffer) ==
    IF buffer = DebGz
    THEN [valid |-> TRUE, control |-> Some(HelloControl), error |-> ""]
    ELSE IF buffer \in {DebXz, DebZst}
    THEN [valid |-> TRUE, control |-> None, error |-> ""]
    ELSE Invalid("Invalid ar archive: missing magic header")

\* a || b on strings
OrElse(a, b) == IF a # "" THEN a ELSE b

\* The value of a form field: the part's value, the default without a part
Field(part, default) == IF part # None THEN part[1] ELSE default

\* The upload handler with no allowedRepos test
RepoAllowedAlways(repo, config) == TRUE

\* config.allowedRepos.length > 0 && !config.allowedRepos.includes(repo),
\* negated
RepoAllowed(repo, config) ==
    config.allowedRepos = {} \/ repo \in config.allowedRepos

\* The upload handler up to its storePackage call: status 0 with the
\* arguments of the call, or the status of the rejection
UploadPlanWith(body, apiKey, oidcClaims, config) ==
    LET Rejected(status) == [status |-> status, args |-> None] IN
    IF body.file = None THEN Rejected(400)
    ELSE
    LET fileBuffer == body.file[1].data
        filename == body.file[1].filename
        architecture == Field(body.architecture, "")
        validation == validateDebianPackage(fileBuffer)
        control == validation.control
        name0 == IF control # None THEN control[1].Package ELSE ""
        version0 == IF control # None THEN control[1].Version ELSE ""
        arch0 == IF control # None
                 THEN OrElse(control[1].Architecture, architecture)
                 ELSE architecture
        match == IF name0 = "" \/ version0 = ""
                 THEN MatchNameVersionArch(filename) ELSE None
        name1 == IF match # None THEN OrElse(name0, match[1][1]) ELSE name0
        version1 == IF match # None THEN OrElse(version0, match[1][2]) ELSE version0
        arch1 == IF match # None THEN OrElse(arch0, match[1][3]) ELSE arch0
        repo == sanitizePath(Field(body.repo, "default"))
        distribution == sanitizePath(Field(body.distribution, "stable"))
        component == sanitizePath(Field(body.component, "main"))
        pkgName == sanitizePath(name1)
        pkgVersion == sanitizePath(version1)
        pkgArch == sanitizePath(OrElse(arch1, "all"))
    IN IF Len(fileBuffer) > config.maxUploadSize THEN Rejected(413)
       ELSE IF ~validation.valid THEN Rejected(400)
       ELSE IF name1 = "" THEN Rejected(400)
       ELSE IF version1 = "" THEN Rejected(400)
       ELSE IF ~isValidPackageName(pkgName) THEN Rejected(400)
       ELSE IF ~isValidVersion(pkgVersion) THEN Rejected(400)
       ELSE IF ~isValidArchitecture(pkgArch) THEN Rejected(400)
       ELSE IF ~RepoAllowed(repo, config) THEN Rejected(403)
       ELSE IF oidcClaims # None
               /\ ~OidcAuthz(oidcClaims[1], pkgName, config).allowed
       THEN Rejected(403)
       ELSE IF oidcClaims = None
               /\ ~hasPermission(apiKey[1], "write", repo, distribution)
       THEN Rejected(403)
       ELSE [status |-> 0,
             args |-> Some([loc |-> MkLoc(repo, distribution, component,
                                          pkgArch, pkgName, pkgVersion),
                            fileBuffer |-> fileBuffer,
                            identity |-> IF oidcClaims # None
                                         THEN "oidc:" \o oidcClaims[1].repository
                                         ELSE apiKey[1].id,
                            controlExtra |-> IF control # None
                                             THEN ControlOf(fileBuffer)
                                             ELSE NoExtra])]

\* The upload handler of the server, which runs with the default
\* configuration
UploadPlan(body, apiKey, oidcClaims) ==
    UploadPlanWith(body, apiKey, oidcClaims, defaultConfig)

\* The PackageLocation the metadata and delete routes build from their
\* parameters
LocOfParams(a) ==
    MkLoc(sanitizePath(a[1]), sanitizePath(a[2]), sanitizePath(a[3]),
          sanitizePath(a[4]), sanitizePath(a[5]), sanitizePath(a[6]))

\* The role a route's own preHandler requires; "" when it has none
RequiredRole(route) ==
    CASE route = RouteUploadPackage -> "write"
      [] route \in {RouteListPackages, RouteGetPackage, RouteDownloadPackage} -> "read"
      [] route = RouteDeletePackage -> "admin"
      [] route \in KeyRoutes -> "admin"
      [] OTHER -> ""

\* Routes whose preHandlers let a verified workflow token through as the
\* upload route's does
RoutePreHandlerOidcAnywhere(route, apiKey, oidcClaims) ==
    IF RequiredRole(route) = "" THEN 0
    ELSE IF oidcClaims # None THEN 0
    ELSE IF apiKey = None THEN 401
    ELSE IF ~hasPermission(apiKey[1], RequiredRole(route), "", "") THEN 403
    ELSE 0

\* The preHandler of the route: 0 to go on to the handler, else the status
\* it replies with
RoutePreHandler(route, apiKey, oidcClaims) ==
    IF RequiredRole(route) = "" THEN 0
    ELSE IF route = RouteUploadPackage /\ oidcClaims # None THEN 0
    ELSE IF apiKey = None THEN 401
    ELSE IF ~hasPermission(apiKey[1], RequiredRole(route), "", "") THEN 403
    ELSE 0

\* The handler of the route.  dpkg and order are the answers of dpkg-deb
\* and readdirSync to the calls the handler makes.
RouteHandler(req, apiKey, oidcClaims, sv, dpkg, order) ==
    LET a == req.params
        w == sv.w
        Listed(filters) == ListPackagesFrom(w, filters, order, dpkg)
        After(r) == [sv EXCEPT !.w = r.w]
    IN
    CASE req.route = RouteHealthz -> Reply(200, sv)
      [] req.route = RouteReadyz -> Reply(200, sv)
      [] req.route = RouteMetrics ->
           \* getStorageStats loads the index of every repo
           Reply(200, After(Listed(NoFilters)))
      [] req.route = RouteUploadPackage ->
           LET plan == UploadPlan(req.body, apiKey, oidcClaims) IN
           IF plan.status # 0 THEN Reply(plan.status, sv)
           ELSE [Reply(0, sv) EXCEPT !.store = plan.args]
      [] req.route = RouteListPackages ->
           Reply(200, After(Listed(MkLoc(a[1], a[2], a[3], a[4], a[5], a[6]))))
      [] req.route = RouteGetPackage ->
           IF getPackageMetadata(w, LocOfParams(a)) = NoMeta
           THEN Reply(404, sv) ELSE Reply(200, sv)
      [] req.route = RouteDownloadPackage ->
           LET match == MatchNameVersion(a[4]) IN
           IF match = None THEN Reply(400, sv)
           ELSE Reply(DownloadHandler(w,
                          MkLoc("default", sanitizePath(a[1]), sanitizePath(a[2]),
                                sanitizePath(a[3]), sanitizePath(match[1][1]),
                                sanitizePath(match[1][2]))).status,
                      sv)
      [] req.route = RouteDeletePackage ->
           LET loc == LocOfParams(a) IN
           IF ~DirExists(w, getPackagePath(loc))
           THEN [Reply(404, sv) EXCEPT
                    !.ret = [op |-> "deletePackage", loc |-> loc, ok |-> TRUE,
                             value |-> FALSE]]
           ELSE [Reply(204, [sv EXCEPT !.w = DeleteFrom(w, loc, dpkg)]) EXCEPT
                    !.deleted = Some(getPackagePath(loc)),
                    !.ret = [op |-> "deletePackage", loc |-> loc, ok |-> TRUE,
                             value |-> TRUE]]
      [] req.route = RouteCreateKey ->
           IF req.body.role \notin ApiKeyRoles THEN Reply(400, sv)
           ELSE LET ks == createKey(sv.keys, sv.issued + 1, req.body.role,
                                    req.body.scope)
                IN Reply(201, [sv EXCEPT !.keys = ks, !.keysFile = save(ks),
                                         !.issued = @ + 1])
      [] req.route = RouteListKeys -> Reply(200, sv)
      [] req.route = RouteDeleteKey ->
           LET d == deleteKey(sv.keys, a[1]) IN
           IF ~d.deleted THEN Reply(404, sv)
           ELSE Reply(204, [sv EXCEPT !.keys = d.keys, !.keysFile = save(d.keys)])
      [] req.route = RouteAptRelease ->
           Reply(200, After(Listed(MkLoc(a[1], a[2], "", "", "", ""))))
      [] req.route = RouteAptPackages ->
           Reply(200, After(Listed(MkLoc(a[1], a[2], a[3], "", "", ""))))
      [] req.route = RouteAptPool ->
           Reply(AptPoolHandler(w, a).status, sv)

\* The routes with an upload handler that keeps the received file in a
\* directory of the data root while it checks it, and leaves it there when
\* it rejects the upload
RouteLeavingUpload(req, apiKey, oidcClaims, sv, dpkg, order) ==
    LET status == RoutePreHandler(req.route, apiKey, oidcClaims)
        o == IF status # 0 THEN Reply(status, sv)
             ELSE RouteHandler(req, apiKey, oidcClaims, sv, dpkg, order)
    IN IF req.route = RouteUploadPackage /\ o.store = None
       THEN [o EXCEPT !.sv.w = MkdirP(@, <<".uploads">>)]
       ELSE o

\* The route's preHandler, then its handler
Route(req, apiKey, oidcClaims, sv, dpkg, order) ==
    LET status == RoutePreHandler(req.route, apiKey, oidcClaims) IN
    IF status # 0 THEN Reply(status, sv)
    ELSE RouteHandler(req, apiKey, oidcClaims, sv, dpkg, order)

----------------------------------------------------------------------------
(* The server: the global preHandler hook (src/unnamed/part_003), the     *)
(* authentication middleware (src/unnamed/part_004) and validateKey, as   *)
(* the turns of the event loop a request takes                            *)

\* What a suspended call keeps of its request to answer it
Caller(req) ==
    [route |-> req.route, query |-> req.query, bearer |-> req.bearer,
     xApiKey |-> req.xApiKey]

\* The hook skips authentication for exactly these URLs
SkipsAuth(req) == Url(req) \in {"/healthz", "/readyz", "/metrics"}

ServicesNow == Services(World, keys, keysFile, issued)

\* Requests suspended on argon2.verify or on storePackage
InFlight == BagCardinality(validations) + BagCardinality(tasks)

\* A reply that leaves the services as they are
Reject(req, status) ==
    /\ resp' = Response(req, status)
    /\ ret' = NoRet
    /\ UNCHANGED <<dirs, debFiles, metaFiles, indexFiles, indexCache, tasks,
                   keys, keysFile, issued>>

\* The outcome of a route takes effect: storePackage starts and the handler
\* awaits it, or the state is left as the handler made it and the reply sent
Settle(req, o) ==
    /\ keys' = o.sv.keys
    /\ keysFile' = o.sv.keysFile
    /\ issued' = o.sv.issued
    /\ IF o.store # None
       THEN /\ StoreStart(o.store[1].loc, o.store[1].fileBuffer,
                          o.store[1].identity, o.store[1].controlExtra,
                          Caller(req))
            /\ resp' = NoResp
       ELSE /\ Commit(o.sv.w)
            /\ tasks' = IF o.deleted # None THEN Orphaned(tasks, o.deleted[1])
                        ELSE tasks
            /\ ret' = o.ret
            /\ resp' = Response(req, o.status)

\* The answers dpkg-deb can give a route: only the routes that load an
\* index or delete a package run it
DpkgFor(route) ==
    IF route \in {RouteMetrics, RouteListPackages, RouteDeletePackage,
                  RouteAptRelease, RouteAptPackages}
    THEN BOOLEAN ELSE {TRUE}

\* The request reaches its route with the identity the middleware attached
Handle(req, apiKey, oidcClaims, sv) ==
    \E dpkg \in DpkgFor(req.route), order \in Orders(listRepos(sv.w)) :
        Settle(req, Route(req, apiKey, oidcClaims, sv, dpkg, order))

\* The element of the list the for...of loop holds while argon2.verify runs:
\* a reference, so the stamp is not part of what the loop keeps
Element(ks, i) == [ks[i] EXCEPT !.lastUsed = None]

\* validateKey has to verify stored hashes: it reads the first key of the
\* list and suspends on argon2.verify
Suspend(req) ==
    /\ validations' = With(validations,
                           [req |-> req, keyData |-> Element(keys, 1),
                            next |-> 2])
    /\ resp' = NoResp
    /\ ret' = NoRet
    /\ UNCHANGED <<dirs, debFiles, metaFiles, indexFiles, indexCache, tasks,
                   keys, keysFile, issued>>

\* The middleware trying the X-Api-Key before the bearer token
ArriveKeyFirst(req) ==
    IF SkipsAuth(req)
    THEN Handle(req, None, None, ServicesNow) /\ UNCHANGED validations
    ELSE IF req.xApiKey # None
    THEN IF adminKey # None /\ req.xApiKey[1] = adminKey[1]
         THEN Handle(req, Some(BootstrapAdmin), None, ServicesNow)
              /\ UNCHANGED validations
         ELSE IF keys = <<>>
         THEN Reject(req, 401) /\ UNCHANGED validations
         ELSE Suspend(req)
    ELSE IF req.bearer # None
    THEN \E jwks \in BOOLEAN :
           LET oidcClaims == verifyGitHubOIDC(req.bearer[1], jwks) IN
           IF oidcClaims = None
           THEN Reject(req, 401) /\ UNCHANGED validations
           ELSE Handle(req, None, oidcClaims, ServicesNow)
                /\ UNCHANGED validations
    ELSE Reject(req, 401) /\ UNCHANGED validations

\* A request arrives: the hook, the middleware and - unless validateKey
\* suspends - the route, in the turn of the arrival
Arrive(req) ==
    IF SkipsAuth(req)
    THEN Handle(req, None, None, ServicesNow) /\ UNCHANGED validations
    ELSE IF req.bearer # None
    THEN \E jwks \in BOOLEAN :
           LET oidcClaims == verifyGitHubOIDC(req.bearer[1], jwks) IN
           IF oidcClaims = None
           THEN Reject(req, 401) /\ UNCHANGED validations
           ELSE Handle(req, None, oidcClaims, ServicesNow)
                /\ UNCHANGED validations
    ELSE IF req.xApiKey = None
    THEN Reject(req, 401) /\ UNCHANGED validations
    ELSE IF adminKey # None /\ req.xApiKey[1] = adminKey[1]
    THEN Handle(req, Some(BootstrapAdmin), None, ServicesNow)
         /\ UNCHANGED validations
    ELSE IF keys = <<>>
    THEN Reject(req, 401) /\ UNCHANGED validations
    ELSE Suspend(req)

\* argon2.verify resolves for a suspended validateKey: on a match the key
\* is stamped, the list saved and the request goes on to its route; else the
\* loop takes the next element of the list as it is now, or ends with null
\* and the middleware replies 401.
ValidateStep(v) ==
    /\ v \in BagToSet(validations)
    /\ IF Argon2Verify(v.keyData.hash, v.req.xApiKey[1])
       THEN \E now \in Instants :
              LET ks == Touch(keys, v.keyData.id, now)
                  keyData == [v.keyData EXCEPT !.lastUsed = Some(now)]
              IN /\ Handle(v.req, Some(keyData), None,
                           Services(World, ks, save(ks), issued))
                 /\ validations' = Without(validations, v)
       ELSE IF v.next > Len(keys)
       THEN /\ Reject(v.req, 401)
            /\ validations' = Without(validations, v)
       ELSE /\ validations' = With(Without(validations, v),
                                   [v EXCEPT !.keyData = Element(keys, v.next),
                                             !.next = @ + 1])
            /\ resp' = NoResp
            /\ ret' = NoRet
            /\ UNCHANGED <<dirs, debFiles, metaFiles, indexFiles, indexCache,
                           tasks, keys, keysFile, issued>>

\* The turns of a storePackage call an upload handler awaits; the handler
\* replies 201 when the call returns and 500 when it throws
UploadOpen(task) ==
    /\ StoreOpen(task)
    /\ resp' = IF ret'.op = "storePackage" THEN Response(task.caller, 500)
               ELSE NoResp
    /\ UNCHANGED keyVars

UploadWrite(task) ==
    /\ StoreWrite(task)
    /\ resp' = NoResp
    /\ UNCHANGED keyVars

UploadFinish(task, dpkg, now) ==
    /\ StoreFinish(task, dpkg, now)
    /\ resp' = Response(task.caller, IF ret'.ok THEN 201 ELSE 500)
    /\ UNCHANGED keyVars

----------------------------------------------------------------------------
(* Spec: the storage engine called directly *)

\* The control fields a caller passes with a file: what the upload route's
\* parser reads from a gzip control archive, nothing from an xz one
ExtraFor(fileBuffer) ==
    IF fileBuffer = DebGz THEN ControlOf(fileBuffer) ELSE NoExtra

UploaderIds == {"test-key"}

\* The files callers store: both at LocHello, the xz one at LocShared
Uploads == { [loc |-> LocHello, fileBuffer |-> DebGz],
             [loc |-> LocHello, fileBuffer |-> DebXz],
             [loc |-> LocShared, fileBuffer |-> DebXz] }

ListFilters == { NoFilters, [NoFilters EXCEPT !.repo = "default"],
                 [NoFilters EXCEPT !.name = "hello"] }

StorageInit ==
    /\ dirs = {}
    /\ debFiles = EmptyFn
    /\ metaFiles = EmptyFn
    /\ indexFiles = EmptyFn
    /\ indexCache = EmptyFn
    /\ tasks = EmptyBag
    /\ ret = NoRet

NoCall == [op |-> "none"]

\* The server before its first request: no keys.json, no key issued
ServerInit ==
    /\ keys = <<>>
    /\ keysFile = None
    /\ issued = 0
    /\ validations = EmptyBag
    /\ resp = NoResp

Init == StorageInit /\ ServerInit /\ call = NoCall

Next ==
    \/ /\ \E u \in Uploads, id \in UploaderIds :
            StoreBegin(u.loc, u.fileBuffer, id, ExtraFor(u.fileBuffer))
       /\ UNCHANGED <<apiVars, call>>
    \/ /\ \E task \in BagToSet(tasks) : StoreOpen(task)
       /\ UNCHANGED <<apiVars, call>>
    \/ /\ \E task \in BagToSet(tasks) : StoreWrite(task)
       /\ UNCHANGED <<apiVars, call>>
    \/ /\ \E task \in BagToSet(tasks), dpkg \in BOOLEAN, now \in Instants :
            StoreFinish(task, dpkg, now)
       /\ UNCHANGED <<apiVars, call>>
    \/ /\ \E loc \in Locs, dpkg \in BOOLEAN : deletePackage(loc, dpkg)
       /\ UNCHANGED <<apiVars, call>>
    \/ /\ \E f \in ListFilters, dpkg \in BOOLEAN : listPackages(f, dpkg)
       /\ UNCHANGED <<apiVars, call>>
    \/ /\ Crash
       /\ UNCHANGED <<apiVars, call>>

vars == <<storageVars, apiVars, call>>

Spec == Init /\ [][Next]_vars

----------------------------------------------------------------------------
(* SpecPerm: hasPermission applied to every key and requirement *)

PermScopes ==
    { None,
      MkScope(None, None),
      MkScope(Some({"default"}), None),
      MkScope(None, Some({"stable"})),
      MkScope(Some({"default"}), Some({"stable"})),
      MkScope(Some({}), None) }

PermKeys ==
    { MkKey("k1", <<"argon2", "s1">>, role, scope, None) :
        role \in ApiKeyRoles, scope \in PermScopes }

PermRepos == {"", "default", "other"}
PermDistributions == {"", "stable", "other"}

PermInit ==
    /\ StorageInit
    /\ ServerInit
    /\ \E keyData \in PermKeys, requiredRole \in ApiKeyRoles,
          repo \in PermRepos, distribution \in PermDistributions :
         call = [op |-> "hasPermission", keyData |-> keyData,
                 requiredRole |-> requiredRole, repo |-> repo,
                 distribution |-> distribution,
                 returned |-> FALSE, result |-> FALSE]

PermApply ==
    /\ call.op = "hasPermission"
    /\ ~call.returned
    /\ call' = [call EXCEPT
                  !.returned = TRUE,
                  !.result = hasPermission(call.keyData, call.requiredRole,
                                           call.repo, call.distribution)]
    /\ UNCHANGED <<storageVars, apiVars>>

PermNext == PermApply

SpecPerm == PermInit /\ [][PermNext]_vars

----------------------------------------------------------------------------
(* SpecApi: requests to the server *)

MaxRequests == 1     \* requests suspended at once
MaxKeys == 2         \* keys created in a run

HelloParams == <<"default", "stable", "main", "amd64", "hello", "1.0">>

\* The credentials a request carries: none, the bootstrap admin key, a
\* workflow token of rsxdalv/hello and a token no issuer signed, which the
\* middleware settles in the turn of the arrival; an X-Api-Key that was
\* never issued and the key of each created key, which validateKey verifies
\* against the stored hashes
Credential(bearer, xApiKey) == [bearer |-> bearer, xApiKey |-> xApiKey]

ForgedToken == "token-forged"

PromptCredentials ==
    { Credential(None, None), Credential(None, adminKey),
      Credential(Some(HelloToken), None), Credential(Some(ForgedToken), None) }

StoredCredentials ==
    { Credential(None, Some("wrong-secret")) }
    \cup { Credential(None, Some(SecretOf(n))) : n \in 1..MaxKeys }

UploadBodies ==
    { [NoBody EXCEPT !.file = MkFile("hello_1.0_amd64.deb", DebGz)],
      [NoBody EXCEPT !.file = MkFile("hello_1.0_amd64.deb", NotDeb)] }

KeyBodies == { [NoBody EXCEPT !.role = role] : role \in {"read", "write"} }

Target(route, query, params, body) ==
    [route |-> route, query |-> query, params |-> params, body |-> body]

\* The endpoints the documentation serves without a credential
OpenTargets ==
    { Target(RouteHealthz, "", <<>>, NoBody),
      Target(RouteHealthz, "?probe=1", <<>>, NoBody),
      Target(RouteReadyz, "", <<>>, NoBody),
      Target(RouteMetrics, "", <<>>, NoBody),
      Target(RouteAptRelease, "", <<"default", "stable">>, NoBody),
      Target(RouteAptPackages, "", <<"default", "stable", "main", "amd64">>,
             NoBody),
      Target(RouteAptPool, "",
             <<"default", "stable", "main", "amd64", "hello_1.0_amd64.deb">>,
             NoBody) }

\* The package and key endpoints
ApiTargets ==
    { Target(RouteListPackages, "", <<"", "", "", "", "", "">>, NoBody),
      Target(RouteGetPackage, "", HelloParams, NoBody),
      Target(RouteDownloadPackage, "",
             <<"stable", "main", "amd64", "hello_1.0.deb">>, NoBody),
      Target(RouteDeletePackage, "", HelloParams, NoBody),
      Target(RouteListKeys, "", <<>>, NoBody),
      Target(RouteDeleteKey, "", <<IdOf(1)>>, NoBody) }
    \cup { Target(RouteUploadPackage, "", <<>>, body) : body \in UploadBodies }
    \cup { Target(RouteCreateKey, "", <<>>, body) : body \in KeyBodies }

\* The package and key endpoints with every credential; the open endpoints
\* without a credential and with the admin key
Requests ==
    { MkRequest(t.route, t.query, c.bearer, c.xApiKey, t.params, t.body) :
        t \in ApiTargets, c \in PromptCredentials }
    \cup { MkRequest(t.route, t.query, None, xApiKey, t.params, t.body) :
             t \in OpenTargets, xApiKey \in {None, adminKey} }
    \cup { MkRequest(t.route, t.query, c.bearer, c.xApiKey, t.params, t.body) :
             t \in ApiTargets, c \in StoredCredentials }

\* Key creations an authenticating request may still make
PendingCreates ==
    Cardinality({ v \in BagToSet(validations) : v.req.route = RouteCreateKey })

\* A request arrives; the key of a created key is known to a client once
\* createKey has returned it.  While another request is suspended, the arrivals
\* are those that suspend as well or change the packages or the key list:
\* the others neither read nor write what a suspended request keeps.
Receive ==
    /\ \E req \in Requests :
         /\ req.route = RouteCreateKey => issued + PendingCreates < MaxKeys
         /\ \A n \in 1..MaxKeys :
              req.xApiKey = Some(SecretOf(n)) => n <= issued
         /\ Arrive(req)
    /\ InFlight' <= MaxRequests
    /\ InFlight > 0 =>
         \/ InFlight' > InFlight
         \/ <<dirs, debFiles, metaFiles, indexFiles, keys>>'
               # <<dirs, debFiles, metaFiles, indexFiles, keys>>
    /\ UNCHANGED call

Validate ==
    /\ \E v \in BagToSet(validations) : ValidateStep(v)
    /\ UNCHANGED call

Open ==
    /\ \E task \in BagToSet(tasks) : UploadOpen(task)
    /\ UNCHANGED call

Write ==
    /\ \E task \in BagToSet(tasks) : UploadWrite(task)
    /\ UNCHANGED call

Finish ==
    /\ \E task \in BagToSet(tasks), dpkg \in BOOLEAN, now \in Instants :
         UploadFinish(task, dpkg, now)
    /\ UNCHANGED call

ApiNext == Receive \/ Validate \/ Open \/ Write \/ Finish

SpecApi == Init /\ [][ApiNext]_vars

----------------------------------------------------------------------------
(* SpecRoutes: the routes answering requests the middleware has let       *)
(* through, one at a time, on a server started with some configuration    *)

MaxServed == 2       \* requests a server answers in a run

\* config.dataRoot, /var/lib/pository
DataRoot == <<"var", "lib", "pository">>

\* path.normalize on the segments of an absolute path: "" and "." are
\* dropped, ".." removes the segment before it and stays at the root
RECURSIVE Normalize(_, _)
Normalize(done, segs) ==
    IF segs = <<>> THEN done
    ELSE IF Head(segs) \in {"", "."} THEN Normalize(done, Tail(segs))
    ELSE IF Head(segs) = ".."
    THEN Normalize(IF done = <<>> THEN <<>> ELSE Dirname(done), Tail(segs))
    ELSE Normalize(Append(done, Head(segs)), Tail(segs))

\* path.join(dataRoot, ...segs)
AbsJoin(segs) == Normalize(DataRoot, segs)

LocSegs(loc) ==
    <<loc.repo, loc.distribution, loc.component, loc.architecture, loc.name,
      loc.version>>

\* The PackageLocation a route builds from its request, None when it builds
\* none; plan is the upload handler's plan
LocationOf(req, plan) ==
    LET a == req.params IN
    CASE req.route = RouteUploadPackage ->
           IF plan.args = None THEN None ELSE Some(plan.args[1].loc)
      [] req.route \in {RouteGetPackage, RouteDeletePackage} ->
           Some(LocOfParams(a))
      [] req.route = RouteDownloadPackage ->
           IF MatchNameVersion(a[4]) = None THEN None
           ELSE Some(MkLoc("default", sanitizePath(a[1]), sanitizePath(a[2]),
                           sanitizePath(a[3]),
                           sanitizePath(MatchNameVersion(a[4])[1][1]),
                           sanitizePath(MatchNameVersion(a[4])[1][2])))
      [] req.route = RouteAptPool ->
           IF MatchNameVersionArch(a[5]) = None THEN None
           ELSE Some(MkLoc(a[1], a[2], a[3], a[4],
                           MatchNameVersionArch(a[5])[1][1],
                           MatchNameVersionArch(a[5])[1][2]))
      [] OTHER -> None

\* The paths the handler of a route hands to the file system: the package
\* directory of its location, and the index.json of a repo whose index
\* listPackages loads from disk
FsPaths(req, plan, w) ==
    LET a == req.params
        loc == LocationOf(req, plan)
    IN (IF loc = None THEN {} ELSE {AbsJoin(LocSegs(loc[1]))})
       \cup (IF req.route \in {RouteListPackages, RouteAptRelease, RouteAptPackages}
                /\ a[1] # "" /\ a[1] \notin DOMAIN w.cache
             THEN {AbsJoin(<<a[1], "index.json">>)} ELSE {})

\* The identities the middleware attaches: the bootstrap admin, stored keys
\* as validateKey returns them, the claims of a verified workflow token
Identity(apiKey, oidcClaims) == [apiKey |-> apiKey, oidcClaims |-> oidcClaims]

StoredKey(n, role, scope) ==
    MkKey(IdOf(n), Argon2Hash(SecretOf(n)), role, scope, Some("T0"))

ScopeStable == MkScope(None, Some({"stable"}))
ScopeDefault == MkScope(Some({"default"}), None)
ScopeOther == MkScope(Some({"other"}), None)

PushClaims == MkClaims("rsxdalv/hello", "private", "push")
PullRequestClaims == MkClaims("rsxdalv/hello", "private", "pull_request")

RouteIdentities ==
    { Identity(Some(BootstrapAdmin), None),
      Identity(Some(StoredKey(1, "write", ScopeStable)), None),
      Identity(Some(StoredKey(1, "write", ScopeDefault)), None),
      Identity(Some(StoredKey(2, "admin", ScopeOther)), None),
      Identity(None, Some(PushClaims)),
      Identity(None, Some(PullRequestClaims)) }

\* The default configuration, and one without allowedRepos that lets the
\* workflows of rsxdalv/hello upload any package
RouteConfigs ==
    { defaultConfig,
      MkConfig(maxUploadSize, {}, oidcAllowedOwners, oidcRequirePrivate,
               [r \in {"rsxdalv/hello"} |-> {"*"}]) }

HelloFile == MkFile("hello_1.0_amd64.deb", DebGz)

RouteUploadBodies ==
    { [NoBody EXCEPT !.file = HelloFile],
      [NoBody EXCEPT !.file = HelloFile, !.distribution = Some("..")],
      [NoBody EXCEPT !.file = HelloFile, !.repo = Some("other")],
      [NoBody EXCEPT !.file = MkFile("hello_1.0_amd64.deb", NotDeb)] }

RouteApiTargets ==
    { Target(RouteUploadPackage, "", <<>>, body) : body \in RouteUploadBodies }
    \cup { Target(RouteGetPackage, "", HelloParams, NoBody),
           Target(RouteDeletePackage, "", HelloParams, NoBody),
           Target(RouteDeletePackage, "",
                  <<"default", "stable", "main", "amd64", "hello", "..">>,
                  NoBody),
           Target(RouteDownloadPackage, "",
                  <<"stable", "main", "amd64", "hello_1.0.deb">>, NoBody) }

RouteAptTargets ==
    { Target(RouteAptRelease, "", <<"default", "stable">>, NoBody),
      Target(RouteAptRelease, "", <<"..", "stable">>, NoBody),
      Target(RouteAptPool, "",
             <<"default", "stable", "main", "amd64", "hello_1.0_amd64.deb">>,
             NoBody),
      Target(RouteAptPool, "",
             <<"..", "stable", "main", "amd64", "hello_1.0_amd64.deb">>,
             NoBody) }

RoutesInit ==
    /\ StorageInit
    /\ ServerInit
    /\ \E config \in RouteConfigs :
         call = [op |-> "listen", config |-> config, served |-> 0]

\* A request reaches its route with the identity attached: the preHandler,
\* then the handler.  call keeps the request, what the route decided (0 when
\* it called storePackage) and the paths it handed to the file system.
Serve(t, id) ==
    LET req == MkRequest(t.route, t.query, None, None, t.params, t.body)
        config == call.config
        sv == ServicesNow
        pre == RoutePreHandler(req.route, id.apiKey, id.oidcClaims)
        plan == IF req.route = RouteUploadPackage /\ pre = 0
                THEN UploadPlanWith(req.body, id.apiKey, id.oidcClaims, config)
                ELSE [status |-> pre, args |-> None]
        \* no route served here lists the repos of dataRoot
        order == <<>>
    IN \E dpkg \in DpkgFor(req.route) :
         LET o == IF pre # 0 THEN Reply(pre, sv)
                  ELSE IF req.route = RouteUploadPackage
                  THEN IF plan.status # 0 THEN Reply(plan.status, sv)
                       ELSE [Reply(0, sv) EXCEPT !.store = plan.args]
                  ELSE RouteHandler(req, id.apiKey, id.oidcClaims, sv, dpkg,
                                    order)
         IN /\ Settle(req, o)
            /\ call' = [op |-> "request", config |-> config,
                        served |-> call.served + 1, req |-> req,
                        apiKey |-> id.apiKey, oidcClaims |-> id.oidcClaims,
                        status |-> o.status,
                        loc |-> IF pre # 0 THEN None ELSE LocationOf(req, plan),
                        paths |-> IF pre # 0 THEN {}
                                  ELSE FsPaths(req, plan, World)]
            /\ UNCHANGED validations

RoutesRequest ==
    /\ InFlight = 0
    /\ call.served < MaxServed
    /\ \/ \E t \in RouteApiTargets, id \in RouteIdentities : Serve(t, id)
       \/ \E t \in RouteAptTargets : Serve(t, Identity(None, None))

RoutesNext == RoutesRequest \/ Open \/ Write \/ Finish

SpecRoutes == RoutesInit /\ [][RoutesNext]_vars

----------------------------------------------------------------------------
(* SpecOidc: one upload by a workflow, for every configuration of the     *)
(* workload-identity rules and every set of claims                        *)

OidcRepositories ==
    {"rsxdalv/hello", "rsxdalv/tool", "evil/hello", "evil/tool"}

OidcClaimSets ==
    { MkClaims(repository, visibility, event) :
        repository \in OidcRepositories,
        visibility \in {"private", "public", "internal"},
        event \in {"push", "workflow_dispatch", "pull_request"} }

OidcOverrideSets ==
    { EmptyFn,
      [r \in {"rsxdalv/hello"} |-> {"*"}],
      [r \in {"rsxdalv/hello"} |-> {"tool"}],
      [r \in {"evil/hello"} |-> {"hello"}],
      [r \in {"rsxdalv/hello"} |-> {}] }

OidcConfigs ==
    { MkConfig(maxUploadSize, allowedRepos, owners, requirePrivate, overrides) :
        owners \in {{"rsxdalv"}, {}, {"rsxdalv", "evil"}},
        requirePrivate \in BOOLEAN,
        overrides \in OidcOverrideSets }

\* Uploads of the packages hello and tool: the first names itself in its
\* control file, the second by its filename
OidcBodies ==
    { [NoBody EXCEPT !.file = HelloFile],
      [NoBody EXCEPT !.file = MkFile("tool_1.0_amd64.deb", DebXz)] }

OidcInit ==
    /\ StorageInit
    /\ ServerInit
    /\ \E config \in OidcConfigs, claims \in OidcClaimSets, body \in OidcBodies :
         call = [op |-> "upload", config |-> config, oidcClaims |-> claims,
                 body |-> body, returned |-> FALSE, packageName |-> "",
                 authz |-> Allowed, status |-> 0]

\* The upload route serves the workflow's request: call keeps the answer of
\* isOidcAllowed and what the handler decided (0 when it called storePackage)
OidcUpload ==
    /\ call.op = "upload"
    /\ ~call.returned
    /\ LET req == MkRequest(RouteUploadPackage, "", None, None, <<>>, call.body)
           sv == ServicesNow
           plan == UploadPlanWith(call.body, None, Some(call.oidcClaims),
                                  call.config)
           packageName == IF call.body.file[1].data = DebGz THEN "hello"
                          ELSE MatchNameVersionArch(call.body.file[1].filename)[1][1]
           o == IF plan.status # 0 THEN Reply(plan.status, sv)
                ELSE [Reply(0, sv) EXCEPT !.store = plan.args]
       IN /\ RoutePreHandler(RouteUploadPackage, None, Some(call.oidcClaims)) = 0
          /\ Settle(req, o)
          /\ call' = [call EXCEPT
                        !.returned = TRUE,
                        !.packageName = packageName,
                        !.authz = OidcAuthz(call.oidcClaims, packageName,
                                            call.config),
                        !.status = o.status]
    /\ UNCHANGED validations

OidcNext == OidcUpload \/ Open \/ Write \/ Finish

SpecOidc == OidcInit /\ [][OidcNext]_vars

----------------------------------------------------------------------------
(* SpecKeys: the key service called directly, one call after another *)

KeyScopes == { None, MkScope(None, Some({"stable"})) }

\* The secrets a caller may present: the admin secret, one never issued and
\* the secrets createKey has returned
CallerSecrets ==
    {adminKey[1], "wrong-secret"} \cup { SecretOf(n) : n \in 1..issued }

KeysCreate ==
    /\ issued < MaxKeys
    /\ \E role \in ApiKeyRoles, scope \in KeyScopes :
         /\ keys' = createKey(keys, issued + 1, role, scope)
         /\ keysFile' = save(keys')
         /\ issued' = issued + 1
         /\ call' = [op |-> "createKey", role |-> role, scope |-> scope,
                     result |-> [id |-> IdOf(issued + 1),
                                 key |-> SecretOf(issued + 1)]]
    /\ UNCHANGED <<storageVars, validations, resp>>

KeysValidate ==
    /\ \E key \in CallerSecrets, now \in Instants :
         LET r == validateKey(keys, key, now) IN
         /\ keys' = r.keys
         /\ keysFile' = IF r.saved THEN save(r.keys) ELSE keysFile
         /\ call' = [op |-> "validateKey", key |-> key, result |-> r.result,
                     verified |-> r.verified]
    /\ UNCHANGED <<storageVars, issued, validations, resp>>

KeysDelete ==
    /\ \E n \in 1..MaxKeys :
         LET r == deleteKey(keys, IdOf(n)) IN
         /\ keys' = r.keys
         /\ keysFile' = IF r.deleted THEN save(r.keys) ELSE keysFile
         /\ call' = [op |-> "deleteKey", id |-> IdOf(n), result |-> r.deleted]
    /\ UNCHANGED <<storageVars, issued, validations, resp>>

KeysList ==
    /\ call' = [op |-> "listKeys", result |-> listKeys(keys)]
    /\ UNCHANGED <<storageVars, keyVars, resp>>

KeysNext == KeysCreate \/ KeysValidate \/ KeysDelete \/ KeysList

SpecKeys == Init /\ [][KeysNext]_vars

----------------------------------------------------------------------------
(* SpecSanitize: sanitizePath applied to every short string *)

MaxLen == 5          \* characters of a path component

\* A letter, the dot and the two separators
PathChars == {"a", ".", "/", "\\"}

RECURSIVE StringsUpTo(_)
StringsUpTo(n) ==
    IF n = 0 THEN {""}
    ELSE StringsUpTo(n - 1)
         \cup { s \o c : s \in { t \in StringsUpTo(n - 1) : Len(t) = n - 1 },
                         c \in PathChars }

SanitizeInit ==
    /\ StorageInit
    /\ ServerInit
    /\ \E component \in StringsUpTo(MaxLen) :
         call = [op |-> "sanitizePath", component |-> component,
                 returned |-> FALSE, result |-> ""]

SanitizeApply ==
    /\ call.op = "sanitizePath"
    /\ ~call.returned
    /\ call' = [call EXCEPT !.returned = TRUE,
                            !.result = sanitizePath(call.component)]
    /\ UNCHANGED <<storageVars, apiVars>>

SanitizeNext == SanitizeApply

SpecSanitize == SanitizeInit /\ [][SanitizeNext]_vars

----------------------------------------------------------------------------
(* SpecValidate: validateDebianPackage applied to every short ar archive, *)
(* and the upload handler's reply to a file it does not accept            *)

MaxMembers == 3      \* headers after the magic of an archive

\* Members of a package file, one of another file, a debian-binary of the
\* old format, a control archive that is no gzip stream, and a header the
\* loop cannot read
ArItems ==
    { Member("debian-binary", "2.0\n"), Member("debian-binary", "1.0\n"),
      Member("control.tar.gz", "gz:hello"), Member("control.tar.gz", "junk"),
      Member("control.tar.xz", "xz"), Member("data.tar.xz", "xz"),
      Member("testfile", "test"), BadHeader }

RECURSIVE ItemsUpTo(_)
ItemsUpTo(n) ==
    IF n = 0 THEN {<<>>}
    ELSE ItemsUpTo(n - 1)
         \cup { Append(items, item) :
                  items \in { t \in ItemsUpTo(n - 1) : Len(t) = n - 1 },
                  item \in ArItems }

ValidateInit ==
    /\ StorageInit
    /\ ServerInit
    /\ \E magic \in BOOLEAN, items \in ItemsUpTo(MaxMembers) :
         call = [op |-> "validateDebianPackage", ar |-> MkAr(magic, items),
                 returned |-> FALSE, result |-> Invalid(""), status |-> 0,
                 error |-> ""]

\* The upload handler validates the file: a file that is not valid is
\* answered 400 with the error of the validation
ValidateApply ==
    /\ call.op = "validateDebianPackage"
    /\ ~call.returned
    /\ LET validation == validateAr(call.ar) IN
       call' = [call EXCEPT !.returned = TRUE,
                            !.result = validation,
                            !.status = IF ~validation.valid THEN 400 ELSE 0,
                            !.error = IF ~validation.valid
                                      THEN validation.error ELSE ""]
    /\ UNCHANGED <<storageVars, apiVars>>

ValidateNext == ValidateApply

SpecValidate == ValidateInit /\ [][ValidateNext]_vars

----------------------------------------------------------------------------
(* SpecUpload: uploads by the bootstrap admin to a server whose            *)
(* maxUploadSize is a byte or a few, through the multipart parser that    *)
(* is registered with limits.fileSize = config.maxUploadSize.  The parser  *)
(* is a dependency: of a file longer than the limit it either hands the    *)
(* handler the first fileSize bytes, or it makes the iteration over the    *)
(* parts throw; both are taken.                                            *)

MultipartModes == {"throws", "truncates"}

\* request.parts() and the loop over the parts
Parts(body, config, mode) ==
    IF body.file = None \/ Len(body.file[1].data) <= config.maxUploadSize
    THEN [thrown |-> FALSE, body |-> body]
    ELSE IF mode = "throws"
    THEN [thrown |-> TRUE, body |-> body]
    ELSE [thrown |-> FALSE,
          body |-> [body EXCEPT !.file =
                       MkFile(body.file[1].filename,
                              SubSeq(body.file[1].data, 1,
                                     config.maxUploadSize))]]

\* The upload handler from request.parts() on: what the loop throws is
\* caught and answered 500
UploadHandler(body, apiKey, oidcClaims, config, mode) ==
    LET parts == Parts(body, config, mode)
    IN IF parts.thrown THEN [status |-> 500, args |-> None]
       ELSE UploadPlanWith(parts.body, apiKey, oidcClaims, config)

\* POSITORY_MAX_UPLOAD_SIZE set to 1, 2 or 3
UploadConfigs ==
    { MkConfig(maxSize, allowedRepos, oidcAllowedOwners, oidcRequirePrivate,
               oidcOverrides) : maxSize \in 1..3 }

\* Files of 1, 2 and 3 bytes, and a request without a file
UploadFiles ==
    { None, MkFile("tool_2.0_arm64.deb", DebXz),
      MkFile("tool_2.0_arm64.deb", NotDeb),
      MkFile("hello_1.0_amd64.deb", DebGz),
      MkFile("tool_2.0_arm64.deb", DebZst) }

UploadInit ==
    /\ StorageInit
    /\ ServerInit
    /\ \E config \in UploadConfigs :
         call = [op |-> "listen", config |-> config, served |-> 0]

\* POST /api/v1/packages with the admin key: call keeps the length of the
\* file sent and the status the handler decided (0 when it called
\* storePackage)
UploadRequest ==
    /\ InFlight = 0
    /\ call.served < MaxServed
    /\ \E file \in UploadFiles, mode \in MultipartModes :
         LET req == MkRequest(RouteUploadPackage, "", None, adminKey, <<>>,
                              [NoBody EXCEPT !.file = file])
             plan == UploadHandler(req.body, Some(BootstrapAdmin), None,
                                   call.config, mode)
             o == IF plan.status # 0 THEN Reply(plan.status, ServicesNow)
                  ELSE [Reply(0, ServicesNow) EXCEPT !.store = plan.args]
         IN /\ Settle(req, o)
            /\ call' = [op |-> "upload", config |-> call.config,
                        served |-> call.served + 1,
                        length |-> IF file = None THEN 0
                                   ELSE Len(file[1].data),
                        status |-> plan.status]
    /\ UNCHANGED validations

UploadNext == UploadRequest \/ Open \/ Write \/ Finish

SpecUpload == UploadInit /\ [][UploadNext]_vars

----------------------------------------------------------------------------
(* SpecAuth: requests carrying a bearer token, an X-Api-Key or both *)

AuthTargets ==
    { Target(RouteUploadPackage, "", <<>>,
             [NoBody EXCEPT !.file = MkFile("hello_1.0_amd64.deb", DebGz)]),
      Target(RouteDeletePackage, "", HelloParams, NoBody) }

AuthBearers == {None, Some(HelloToken), Some(ForgedToken)}

AuthApiKeys == {None, adminKey, Some(SecretOf(1)), Some("wrong-secret")}

AuthRequests ==
    { MkRequest(t.route, t.query, bearer, xApiKey, t.params, t.body) :
        t \in AuthTargets, bearer \in AuthBearers, xApiKey \in AuthApiKeys }

\* The server with one write key created
AuthInit ==
    /\ StorageInit
    /\ keys = createKey(<<>>, 1, "write", None)
    /\ keysFile = save(keys)
    /\ issued = 1
    /\ validations = EmptyBag
    /\ resp = NoResp
    /\ call = NoCall

\* A request arrives while no other is suspended
AuthReceive ==
    /\ InFlight = 0
    /\ \E req \in AuthRequests : Arrive(req)
    /\ UNCHANGED call

AuthNext == AuthReceive \/ Validate \/ Open \/ Write \/ Finish

SpecAuth == AuthInit /\ [][AuthNext]_vars

----------------------------------------------------------------------------
(* SpecApt: StorageService and the apt routes, one call at a time *)

\* storePackage when no other call runs between its turns
StoreAlone(w, loc, fileBuffer, uploaderKeyId, controlExtra, dpkg, now) ==
    LET pkgPath == getPackagePath(loc)
        w1 == IF DirExists(w, pkgPath) THEN w ELSE MkdirP(w, pkgPath)
        w2 == [w1 EXCEPT !.deb = Put(@, pkgPath, fileBuffer)]
        task == [loc |-> loc, fileBuffer |-> fileBuffer,
                 uploaderKeyId |-> uploaderKeyId,
                 controlExtra |-> controlExtra,
                 sha256 |-> Sha256(fileBuffer)]
        sm == StoreMetadata(w2, task, dpkg, now)
    IN StoreIndex(sm.w, loc, sm.metadata, dpkg)

LocTool == MkLoc("default", "stable", "(SHA256)", "arm64", "tool", "2.0")

AptLocs == {LocHello, LocShared, LocTool}

AptUploads == { [loc |-> LocHello, fileBuffer |-> DebGz],
                [loc |-> LocHello, fileBuffer |-> DebXz],
                [loc |-> LocShared, fileBuffer |-> DebXz],
                [loc |-> LocTool, fileBuffer |-> DebZst] }

\* s.split("/")
RECURSIVE Segments(_)
Segments(s) ==
    IF SlashesOf(s) = {} THEN <<s>>
    ELSE LET first == MinOf(SlashesOf(s))
         IN <<SubSeq(s, 1, first - 1)>>
                \o Segments(SubSeq(s, first + 1, Len(s)))

\* The parameters the router hands the pool route for
\* GET /apt/<repo>/<filename>, filename being the Filename of a stanza
PoolParams(repo, filename) == <<repo>> \o Tail(Segments(filename))

AptRequests ==
    { [route |-> RouteAptRelease, params |-> <<"default", "stable">>] }
    \cup { [route |-> RouteAptPackages,
            params |-> <<"default", "stable", c[1], c[2]>>] :
              c \in { <<"main", "amd64">>, <<"main", "arm64">>,
                      <<"main", "all">>, <<"(SHA256)", "arm64">> } }
    \cup { [route |-> RouteAptPool,
            params |-> PoolParams(loc.repo, PoolFilename(loc))] :
              loc \in AptLocs }
    \cup { [route |-> RouteAptPool,
            params |-> <<"default", "stable", "main", "amd64", "hello.deb">>] }

AptStore ==
    /\ \E u \in AptUploads, id \in UploaderIds, dpkg \in BOOLEAN,
          now \in Instants :
         /\ Commit(StoreAlone(World, u.loc, u.fileBuffer, id,
                              ExtraFor(u.fileBuffer), dpkg, now))
         /\ ret' = [op |-> "storePackage", loc |-> u.loc, ok |-> TRUE,
                    fileBuffer |-> u.fileBuffer,
                    replaced |-> Replaces(World, u.loc, dpkg),
                    overlapped |-> FALSE]
    /\ call' = NoCall
    /\ UNCHANGED <<tasks, apiVars>>

AptDelete ==
    /\ \E loc \in AptLocs, dpkg \in BOOLEAN : deletePackage(loc, dpkg)
    /\ call' = NoCall
    /\ UNCHANGED apiVars

AptRestart ==
    /\ Crash
    /\ call' = NoCall
    /\ UNCHANGED apiVars

AptRequest ==
    /\ \E req \in AptRequests, now \in Instants :
       \E dpkg \in DpkgFor(req.route) :
         LET o == CASE req.route = RouteAptRelease ->
                         AptReleaseHandler(World, req.params, dpkg, now)
                    [] req.route = RouteAptPackages ->
                         AptPackagesHandler(World, req.params, dpkg)
                    [] req.route = RouteAptPool ->
                         AptPoolHandler(World, req.params)
         IN /\ Commit(o.w)
            /\ call' = [op |-> "apt", route |-> req.route,
                        params |-> req.params, status |-> o.status,
                        body |-> o.body]
    /\ ret' = NoRet
    /\ UNCHANGED <<tasks, apiVars>>

AptNext == AptStore \/ AptDelete \/ AptRestart \/ AptRequest

SpecApt == Init /\ [][AptNext]_vars

----------------------------------------------------------------------------
(* SpecDisk: StorageService called directly, one call at a time, on a     *)
(* disk where a write of index.json may fail (writeFileSync throws, as on *)
(* a full disk); the other writes succeed.                                *)

\* saveIndex when writeFileSync throws: the directory is there, index.json
\* and the cache entry are as before
saveIndexThrows(w, repo) ==
    IF DirExists(w, getIndexPath(repo)) THEN w
    ELSE MkdirP(w, getIndexPath(repo))

\* loadIndex on the failing disk: only the first load of an index with an
\* entry to heal writes index.json; it then throws with the metadata.json
\* files rewritten and nothing cached
loadIndexThrows(w, repo, dpkg) ==
    LET h == HealFrom([w |-> w, index |-> IF repo \in DOMAIN w.idx
                                           THEN w.idx[repo] ELSE <<>>,
                       healed |-> FALSE], 1, dpkg)
    IN IF repo \notin DOMAIN w.cache /\ repo \in DOMAIN w.idx /\ h.healed
       THEN [threw |-> TRUE, w |-> saveIndexThrows(h.w, repo), index |-> <<>>]
       ELSE [threw |-> FALSE, w |-> loadIndex(w, repo, dpkg).w,
             index |-> loadIndex(w, repo, dpkg).index]

\* The index update of storePackage on the failing disk.  The index that
\* loadIndex returns is the object the cache holds: the upsert is made on
\* it, then saveIndex throws.
StoreIndexThrows(w, loc, metadata, dpkg) ==
    LET li == loadIndexThrows(w, loc.repo, dpkg)
    IN IF li.threw THEN li.w
       ELSE [saveIndexThrows(li.w, loc.repo) EXCEPT
                !.cache = Put(@, loc.repo, Upsert(li.index, loc, metadata))]

\* storePackage, no other call running between its turns, on a disk that
\* takes (disk) or refuses the writes of index.json
StoreOnDisk(w, loc, fileBuffer, uploaderKeyId, controlExtra, dpkg, now, disk) ==
    LET pkgPath == getPackagePath(loc)
        w1 == IF DirExists(w, pkgPath) THEN w ELSE MkdirP(w, pkgPath)
        w2 == [w1 EXCEPT !.deb = Put(@, pkgPath, fileBuffer)]
        task == [loc |-> loc, fileBuffer |-> fileBuffer,
                 uploaderKeyId |-> uploaderKeyId,
                 controlExtra |-> controlExtra,
                 sha256 |-> Sha256(fileBuffer)]
        sm == StoreMetadata(w2, task, dpkg, now)
    IN IF disk THEN StoreIndex(sm.w, loc, sm.metadata, dpkg)
       ELSE StoreIndexThrows(sm.w, loc, sm.metadata, dpkg)

\* deletePackage on an existing directory on the failing disk: the splice
\* is made on the cached index, saveIndex throws and cleanEmptyDirs is not
\* reached; without an entry to remove nothing is written
DeleteThrows(w, loc, dpkg) ==
    LET pkgPath == getPackagePath(loc)
        w1 == RmRecursive(w, pkgPath)
        li == loadIndexThrows(w1, loc.repo, dpkg)
        idx == findIndex(li.index, loc)
    IN IF li.threw THEN li.w
       ELSE IF idx > 0
       THEN [saveIndexThrows(li.w, loc.repo) EXCEPT
                !.cache = Put(@, loc.repo, Splice(li.index, idx))]
       ELSE cleanEmptyDirs(li.w, Dirname(pkgPath))

DiskInit == StorageInit /\ ServerInit /\ call = [op |-> "none", disk |-> TRUE]

\* call keeps the call made and whether the disk took the writes of
\* index.json
DiskStore ==
    /\ \E u \in Uploads, dpkg \in BOOLEAN, now \in Instants,
          disk \in BOOLEAN :
         /\ Commit(StoreOnDisk(World, u.loc, u.fileBuffer, "test-key",
                               ExtraFor(u.fileBuffer), dpkg, now, disk))
         /\ call' = [op |-> "storePackage", disk |-> disk]
    /\ ret' = NoRet
    /\ UNCHANGED <<tasks, apiVars>>

DiskDelete ==
    /\ \E loc \in Locs, dpkg \in BOOLEAN, disk \in BOOLEAN :
         /\ DirExists(World, getPackagePath(loc))
         /\ Commit(IF disk THEN DeleteFrom(World, loc, dpkg)
                   ELSE DeleteThrows(World, loc, dpkg))
         /\ call' = [op |-> "deletePackage", disk |-> disk]
    /\ ret' = NoRet
    /\ UNCHANGED <<tasks, apiVars>>

\* listPackages({ repo: "default" }): the index is loaded
DiskLoad ==
    /\ \E dpkg \in BOOLEAN, disk \in BOOLEAN :
         /\ Commit(IF disk THEN loadIndex(World, "default", dpkg).w
                   ELSE loadIndexThrows(World, "default", dpkg).w)
         /\ call' = [op |-> "listPackages", disk |-> disk]
    /\ ret' = NoRet
    /\ UNCHANGED <<tasks, apiVars>>

DiskRestart ==
    /\ Crash
    /\ call' = [op |-> "restart", disk |-> TRUE]
    /\ UNCHANGED apiVars

DiskNext == DiskStore \/ DiskDelete \/ DiskLoad \/ DiskRestart

SpecDisk == DiskInit /\ [][DiskNext]_vars

----------------------------------------------------------------------------
(* Claims about the storage engine *)

\* The entries of index.json of loc's repo that carry loc's keys
EntriesOf(loc) ==
    IF loc.repo \in DOMAIN indexFiles
    THEN SelectSeq(indexFiles[loc.repo], LAMBDA p : SameKey(p, loc))
    ELSE <<>>

HasDeb(loc) == getPackagePath(loc) \in DOMAIN debFiles
HasMeta(loc) == getPackagePath(loc) \in DOMAIN metaFiles
HasEntry(loc) == Len(EntriesOf(loc)) > 0

\* C1: digest stability.  For every stored package (one with an index
\* entry), at every moment, the sha256 in metadata.json and in the index
\* entry is the SHA-256 of the bytes now at package.deb.
C1_DigestStability ==
    \A loc \in Locs :
        HasEntry(loc) =>
            /\ HasDeb(loc)
            /\ HasMeta(loc)
            /\ metaFiles[getPackagePath(loc)].sha256
                  = Sha256(debFiles[getPackagePath(loc)])
            /\ \A i \in 1..Len(EntriesOf(loc)) :
                  EntriesOf(loc)[i].sha256 = Sha256(debFiles[getPackagePath(loc)])

\* C2: atomicity.  In every reachable state a location has all three of
\* package.deb, metadata.json and its index entry, or none of them.
C2_Atomicity ==
    \A loc \in Locs :
        \/ HasDeb(loc) /\ HasMeta(loc) /\ HasEntry(loc)
        \/ ~HasDeb(loc) /\ ~HasMeta(loc) /\ ~HasEntry(loc)

Unique(index) ==
    \A i, j \in 1..Len(index) : i # j => ~SameKey(index[i], index[j])

\* C3: index uniqueness.  Whatever storePackage and deletePackage calls have
\* run and however they interleaved, each repo's index - index.json and the
\* cached one - has at most one entry per (distribution, component,
\* architecture, name, version).
C3_IndexUnique ==
    /\ \A repo \in DOMAIN indexFiles : Unique(indexFiles[repo])
    /\ \A repo \in DOMAIN indexCache : Unique(indexCache[repo])

\* A storePackage that overlapped another one for its location has just
\* replaced an index entry, next to the entry of another location
C3_Witness ==
    /\ ret.op = "storePackage" /\ ret.ok
    /\ ret.replaced /\ ret.overlapped
    /\ "default" \in DOMAIN indexFiles
    /\ Len(indexFiles["default"]) = 2

\* What listPackages returns for exactly this location
ListedAt(loc) ==
    { ListPackagesFrom(World, loc, <<>>, dpkg).results : dpkg \in BOOLEAN }

\* C4: overwrite.  When a storePackage to a location that already had an
\* index entry returns, listPackages has exactly one entry for the location,
\* and that entry and getPackageMetadata carry the size and sha256 of the
\* bytes just stored.
C4_Overwrite ==
    (ret.op = "storePackage" /\ ret.ok /\ ret.replaced) =>
        /\ \A results \in ListedAt(ret.loc) :
              /\ Len(results) = 1
              /\ results[1].sha256 = Sha256(ret.fileBuffer)
              /\ results[1].size = Len(ret.fileBuffer)
        /\ getPackageMetadata(World, ret.loc).name # ""
        /\ getPackageMetadata(World, ret.loc).sha256 = Sha256(ret.fileBuffer)
        /\ getPackageMetadata(World, ret.loc).size = Len(ret.fileBuffer)

\* package.deb, metadata.json and the index entries of loc all come from
\* one upload of the bytes b
AllFrom(loc, b) ==
    /\ HasDeb(loc) /\ debFiles[getPackagePath(loc)] = b
    /\ HasMeta(loc) /\ metaFiles[getPackagePath(loc)].sha256 = Sha256(b)
    /\ HasEntry(loc)
    /\ \A i \in 1..Len(EntriesOf(loc)) : EntriesOf(loc)[i].sha256 = Sha256(b)

\* C5: last writer wins.  Once storePackage calls that ran concurrently for
\* one location have all completed, package.deb, metadata.json and the index
\* entry of the location come from the same one of the uploads.
C5_LastWriterWins ==
    (tasks = EmptyBag /\ ret.op = "storePackage" /\ ret.ok /\ ret.overlapped) =>
        \E b \in Buffers : AllFrom(ret.loc, b)

\* C6: reader isolation.  While a storePackage to a location is in flight, a
\* reader of that location sees the prior state or the new state as a whole:
\* a /repo download that finds package.deb sends the X-Checksum-Sha256 of
\* the bytes it sends, and a Packages stanza of the location carries the
\* Size, SHA256 and MD5sum of one and the same file.
C6_ReaderIsolation ==
    \A task \in BagToSet(tasks) :
        LET download == DownloadHandler(World, task.loc)
            entries == EntriesOf(task.loc)
        IN /\ download.status = 200 =>
                download.checksum = Some(Sha256(download.body))
           /\ \A i \in 1..Len(entries) :
                LET stanza == PackagesStanza(World, entries[i]) IN
                \E b \in Buffers :
                    /\ stanza.size = Len(b)
                    /\ stanza.sha256 = Sha256(b)
                    /\ stanza.md5sum = Some(Md5(b))

----------------------------------------------------------------------------
(* Claims about the API key store *)

\* C10: role hierarchy.  hasPermission(key, required), called without a repo
\* or distribution, grants exactly when the rank of the key's role (admin 3,
\* write 2, read 1) is at least the rank of the required role, whatever the
\* key's scope: admin passes every requirement, write fails admin, read fails
\* write.
C10_RoleHierarchy ==
    (/\ call.op = "hasPermission" /\ call.returned
     /\ call.repo = "" /\ call.distribution = "") =>
        LET rank(role) == CASE role = "admin" -> 3
                            [] role = "write" -> 2
                            [] role = "read" -> 1
        IN /\ call.result = (rank(call.keyData.role) >= rank(call.requiredRole))
           /\ call.keyData.role = "admin" => call.result
           /\ (call.keyData.role = "write" /\ call.requiredRole = "admin")
                 => ~call.result
           /\ (call.keyData.role = "read" /\ call.requiredRole = "write")
                 => ~call.result

\* hasPermission has refused a scoped write key the admin role
C10_Witness ==
    /\ call.op = "hasPermission" /\ call.returned
    /\ call.repo = "" /\ call.distribution = ""
    /\ call.keyData.role = "write" /\ call.requiredRole = "admin"
    /\ call.keyData.scope # None
    /\ ~call.result

----------------------------------------------------------------------------
(* Claims about authentication and roles on the endpoints *)

ProtectedRoutes == PackageRoutes \cup KeyRoutes

\* The packages and the keys: the stamp of the last use is no part of a
\* key's identity or rights
PackageState == <<dirs, debFiles, metaFiles, indexFiles>>
KeyState == [i \in 1..Len(keys) |-> Element(keys, i)]

\* A response to a request that carried no credential, or one that is none:
\* a token no issuer signed, or an X-Api-Key that is neither the admin key
\* nor the key of any key created up to the response
NoValidCredential(r, n) ==
    \/ r.bearer = None /\ r.xApiKey = None
    \/ r.bearer = Some(ForgedToken)
    \/ /\ r.bearer = None
       /\ r.xApiKey # None
       /\ r.xApiKey # adminKey
       /\ \A i \in 1..n : r.xApiKey[1] # SecretOf(i)

\* C7: every package and key endpoint requires authentication: the turn
\* that answers a request with no credential or an invalid one answers 401
\* and leaves the packages, the key list and the key file as they were.
C7_AuthRequired ==
    [][ (resp'.route \in ProtectedRoutes /\ NoValidCredential(resp', issued'))
          => /\ resp'.status = 401
             /\ UNCHANGED <<PackageState, keys, keysFile, issued>> ]_vars

\* A 401 to a wrong X-Api-Key on a package or key endpoint while a package
\* is stored and a key exists
C7_Witness ==
    /\ resp.route \in ProtectedRoutes
    /\ resp.xApiKey = Some("wrong-secret")
    /\ resp.status = 401
    /\ keys # <<>>
    /\ HasDeb(LocHello)

\* C8: the apt endpoints and /healthz, /readyz, /metrics are served to a
\* request without any credential: it is never answered 401.
C8_OpenEndpoints ==
    (resp.route \in AptRoutes \cup HealthRoutes
       /\ resp.bearer = None /\ resp.xApiKey = None)
      => resp.status # 401

\* The response answers a package request made with a stored key whose role
\* ranks below the role the route requires
BelowRank(r, ks) ==
    /\ r.route \in PackageRoutes
    /\ r.xApiKey # None
    /\ \E i \in 1..Len(ks) :
         /\ Argon2Verify(ks[i].hash, r.xApiKey[1])
         /\ roleHierarchy[ks[i].role] < roleHierarchy[RequiredRole(r.route)]

\* C9: package endpoints enforce roles: a request whose key ranks below the
\* required role is answered 403 and changes neither packages nor keys,
\* and DELETE of an existing package with the admin key is answered 204.
C9_PackageRoles ==
    [][ /\ BelowRank(resp', keys)
          => /\ resp'.status = 403
             /\ UNCHANGED <<PackageState, KeyState>>
        /\ (resp'.route = RouteDeletePackage /\ resp'.xApiKey = adminKey
              /\ validations' = validations
              /\ DirExists(World, getPackagePath(LocHello)))
          => resp'.status = 204 ]_vars

----------------------------------------------------------------------------
(* Claims about the key store behind the endpoints *)

\* A validateKey call returns in the step: the call it was
Returning ==
    CHOOSE v \in BagToSet(validations) : validations' = Without(validations, v)

\* C14: validateKey of a secret other than the admin secret returns a key
\* record exactly if a key whose hash verifies the secret is in the store
\* when it returns, and null otherwise: a created key validates until it is
\* deleted, and never after.  (null is what the middleware answers 401 to.)
C14_ValidateKey ==
    [][ BagCardinality(validations') < BagCardinality(validations)
          => LET secret == Returning.req.xApiKey[1]
                 inStore == \E i \in 1..Len(keys) :
                                Argon2Verify(keys[i].hash, secret)
                 null == resp' # NoResp /\ resp'.status = 401
             IN null <=> ~inStore ]_vars

\* The response answers a request to create or revoke a key made with a
\* stored key of role read or write
ByLesserKey(r, ks) ==
    /\ r.route \in {RouteCreateKey, RouteDeleteKey}
    /\ r.xApiKey # None
    /\ \E i \in 1..Len(ks) :
         /\ Argon2Verify(ks[i].hash, r.xApiKey[1])
         /\ ks[i].role \in {"read", "write"}

\* C15: only an admin identity changes the set of keys: POST /api/v1/keys and
\* DELETE /api/v1/keys/:id sent with a read or write key are answered 403 and
\* leave the keys as they are, and every step that creates or revokes a key
\* answers a request made with the admin key.
C15_AdminOnlyKeys ==
    [][ /\ ByLesserKey(resp', keys)
          => /\ resp'.status = 403
             /\ UNCHANGED KeyState
        /\ KeyState' # KeyState
          => /\ resp'.route \in {RouteCreateKey, RouteDeleteKey}
             /\ resp'.xApiKey = adminKey ]_vars

\* No step lets a request made with a read or write key change the keys
C15_NoEscalation ==
    [][ (resp' # NoResp /\ resp'.xApiKey # adminKey) => UNCHANGED KeyState ]_vars

\* The secrets createKey has generated
IssuedSecrets == { SecretOf(n) : n \in 1..issued }

\* A stored record holds the hash of its key's secret and no secret
HashedOnly(ks) ==
    \A i \in 1..Len(ks) :
        /\ \E n \in 1..issued :
             ks[i].id = IdOf(n) /\ ks[i].hash = Argon2Hash(SecretOf(n))
        /\ ks[i].id \notin IssuedSecrets
        /\ ks[i].role \notin IssuedSecrets

\* C16: the secret of a key is returned by the createKey call that generated
\* it and by no other call, the key list and the key file hold its hash and
\* never the secret, and listKeys returns no hash.
C16_SecretsOnce ==
    /\ HashedOnly(keys)
    /\ keysFile # None => HashedOnly(keysFile[1])
    /\ call.op = "createKey" =>
         /\ call.result.key = SecretOf(issued)
         /\ call.result.id = IdOf(issued)
    /\ call.op = "listKeys" =>
         \A i \in 1..Len(call.result) :
             /\ "hash" \notin DOMAIN call.result[i]
             /\ call.result[i].id \notin IssuedSecrets
             /\ call.result[i].role \notin IssuedSecrets
    /\ (call.op = "validateKey" /\ call.result # None) =>
         /\ call.result[1].id \notin IssuedSecrets
         /\ call.result[1].role \notin IssuedSecrets
    /\ call.op = "deleteKey" => call.result \in BOOLEAN

\* listKeys has listed two keys, one of them used
C16_Witness ==
    /\ call.op = "listKeys"
    /\ Len(call.result) = 2
    /\ \E i \in 1..2 : call.result[i].lastUsed # None
    /\ keysFile = Some(keys)

----------------------------------------------------------------------------
(* Claims about scopes, workload identities and package locations *)

\* A string without a separator, without ".." and not starting with "."
IsClean(s) ==
    /\ \A i \in 1..Len(s) : CharAt(s, i) \notin {"/", "\\"}
    /\ \A i \in 1..(Len(s) - 1) : SubSeq(s, i, i + 1) # ".."
    /\ s # "" => CharAt(s, 1) # "."

\* C17: for every string, sanitizePath returns a value with no "/" and no
\* "\", with no ".." and not starting with "."; a string that has none of
\* these is returned unchanged, so sanitizePath of a result is the result.
C17_Sanitized ==
    (call.op = "sanitizePath" /\ call.returned)
      => /\ IsClean(call.result)
         /\ IsClean(call.component) => call.result = call.component
         /\ sanitizePath(call.result) = call.result

\* sanitizePath has returned a non-empty value for a string that held
\* separators, dots in a row and a leading dot
C17_Witness ==
    /\ call.op = "sanitizePath" /\ call.returned
    /\ call.component = "./..a"
    /\ call.result = "a"

\* The request the server has served last is an upload that passed the
\* checks of its file, name, version and architecture
UploadServed ==
    /\ call.op = "request"
    /\ call.req.route = RouteUploadPackage
    /\ call.status \notin {400, 413}

\* The repo and distribution an upload targets
TargetRepo(body) == sanitizePath(Field(body.repo, "default"))
TargetDistribution(body) == sanitizePath(Field(body.distribution, "stable"))

\* The repo or the distribution lies outside the scope of the key
OutsideScope(keyData, repo, distribution) ==
    /\ keyData.scope # None
    /\ \/ /\ keyData.scope[1].repos # None
          /\ repo \notin keyData.scope[1].repos[1]
       \/ /\ keyData.scope[1].distributions # None
          /\ distribution \notin keyData.scope[1].distributions[1]

\* C11: scope.  For a key with a scope, hasPermission is false for a repo
\* outside scope.repos or a distribution outside scope.distributions, whatever
\* the key's role, and an upload to such a repo or distribution is answered
\* 403.
C11_Scope ==
    (/\ UploadServed
     /\ call.apiKey # None
     /\ OutsideScope(call.apiKey[1], TargetRepo(call.req.body),
                     TargetDistribution(call.req.body)))
      => /\ ~hasPermission(call.apiKey[1], "write", TargetRepo(call.req.body),
                           TargetDistribution(call.req.body))
         /\ call.status = 403

\* The workflow's upload has been served
OidcServed == call.op = "upload" /\ call.returned

NothingStored ==
    /\ tasks = EmptyBag
    /\ dirs = {}
    /\ debFiles = EmptyFn
    /\ metaFiles = EmptyFn
    /\ indexFiles = EmptyFn

\* C12: an upload whose claims have event_name pull_request is denied
\* whatever the overrides, the allowed owners, the visibility and the package
\* name are: isOidcAllowed answers allowed = false with a reason, the upload
\* is answered 403 and nothing is stored.
C12_PullRequestDenied ==
    (OidcServed /\ call.oidcClaims.event_name = "pull_request")
      => /\ ~call.authz.allowed
         /\ call.authz.reason # None
         /\ call.status = 403
         /\ resp.status = 403
         /\ NothingStored

\* A pull_request upload from a repository with a "*" override, by an allowed
\* owner and private, refused
C12_Witness ==
    /\ OidcServed
    /\ call.oidcClaims.event_name = "pull_request"
    /\ call.oidcClaims.repository \in DOMAIN call.config.oidcOverrides
    /\ "*" \in call.config.oidcOverrides[call.oidcClaims.repository]
    /\ call.oidcClaims.repository_visibility = "private"
    /\ resp.status = 403

\* C13: for another event isOidcAllowed allows, when oidcOverrides has an
\* entry for the repository, exactly if the entry holds "*" or the package
\* name, and without an entry exactly if the owner is in oidcAllowedOwners,
\* the repository is private when oidcRequirePrivate is set, and the package
\* is named as the repository; every denial carries a reason.
C13_OidcRules ==
    (OidcServed /\ call.oidcClaims.event_name # "pull_request")
      => LET config == call.config
             claims == call.oidcClaims
             expected ==
                 IF claims.repository \in DOMAIN config.oidcOverrides
                 THEN \/ "*" \in config.oidcOverrides[claims.repository]
                      \/ call.packageName
                           \in config.oidcOverrides[claims.repository]
                 ELSE /\ \E owner \in config.oidcAllowedOwners :
                            claims.repository = owner \o "/" \o call.packageName
                      /\ config.oidcRequirePrivate
                           => claims.repository_visibility = "private"
         IN /\ call.authz.allowed = expected
            /\ ~call.authz.allowed => call.authz.reason # None
            /\ call.authz.allowed => call.authz.reason = None
            /\ call.status = IF expected THEN 0 ELSE 403

\* A push from a repository whose owner is not allowed, let in by an override
\* that names the package; the package is stored
C13_Witness ==
    /\ OidcServed
    /\ call.oidcClaims.event_name = "push"
    /\ call.oidcClaims.repository = "evil/hello"
    /\ "evil" \notin call.config.oidcAllowedOwners
    /\ call.authz.allowed
    /\ resp # NoResp
    /\ resp.status = 201

\* The request served last, whatever it was
Served == call.op = "request"

\* C18: every component of the PackageLocation a request names has passed
\* sanitizePath before the file system is touched, on the upload, metadata,
\* delete and download routes and on the /apt Release, Packages and pool
\* routes, so every path a request reads or writes lies below dataRoot.
C18_InsideDataRoot ==
    Served
      => /\ call.loc # None =>
              \A i \in 1..6 : IsClean(LocSegs(call.loc[1])[i])
         /\ \A p \in call.paths : IsPrefix(DataRoot, p)

\* The components of the location a request names, sanitized: those of the
\* form fields of an upload, those of the parameters of the other routes
NamedComponents(req) ==
    CASE req.route = RouteUploadPackage ->
           <<TargetRepo(req.body), TargetDistribution(req.body),
             sanitizePath(Field(req.body.component, "main"))>>
      [] req.route \in {RouteGetPackage, RouteDeletePackage} ->
           LocSegs(LocOfParams(req.params))
      [] req.route = RouteDownloadPackage ->
           <<sanitizePath(req.params[1]), sanitizePath(req.params[2]),
             sanitizePath(req.params[3])>>
      [] OTHER -> <<>>

HasEmpty(components) == \E i \in 1..Len(components) : components[i] = ""

\* C19: the six components of a location are non-empty: an upload, metadata,
\* download or delete request that names an empty component, or one that
\* sanitizePath empties, is answered 400 (when it is not refused for its
\* identity or size before), and no location with an empty component
\* reaches storePackage or deletePackage.
C19_NonEmptyComponents ==
    /\ (Served /\ HasEmpty(NamedComponents(call.req))
          /\ call.status \notin {401, 403, 413})
         => call.status = 400
    /\ \A task \in BagToSet(tasks) : ~HasEmpty(LocSegs(task.loc))
    /\ ret.op = "deletePackage" => ~HasEmpty(LocSegs(ret.loc))

\* Every entry listPackages returns, whatever the order readdirSync lists
\* the repos in and whether dpkg-deb answers
Listable ==
    UNION { LET r == ListPackagesFrom(World, NoFilters, order, dpkg).results
            IN { r[i] : i \in 1..Len(r) } :
              order \in Orders(listRepos(World)), dpkg \in BOOLEAN }

\* C20: with a non-empty allowedRepos, an upload whose sanitized repo is not
\* in the list is answered 403 (when it is not refused for its identity, its
\* size or its file before) and calls storePackage for nothing; and on a tree
\* that started empty every entry listPackages returns has its repo in
\* allowedRepos.
C20_AllowedRepos ==
    call.config.allowedRepos # {}
      => /\ (UploadServed /\ call.status # 401
               /\ TargetRepo(call.req.body) \notin call.config.allowedRepos)
              => /\ call.status = 403
                 /\ tasks = EmptyBag
                 /\ resp.status = 403
         /\ \A task \in BagToSet(tasks) :
              task.loc.repo \in call.config.allowedRepos
         /\ \A pkg \in Listable : pkg.repo \in call.config.allowedRepos

\* An upload to the repo other refused by the admin key's server, which
\* lists the package stored before
C20_Witness ==
    /\ UploadServed
    /\ call.config.allowedRepos = {"default"}
    /\ TargetRepo(call.req.body) = "other"
    /\ call.apiKey = Some(BootstrapAdmin)
    /\ call.status = 403
    /\ Listable # {}

----------------------------------------------------------------------------
(* SpecStore: ApiKeyService called directly, the calls overlapping.  A     *)
(* createKey call generates its id and secret and suspends on argon2.hash; *)
(* a validateKey call suspends on argon2.verify once for each key it       *)
(* tries; deleteKey runs in one turn.  `validations` holds the suspended   *)
(* calls, `call` the ids of the keys whose createKey has returned and of   *)
(* those a deleteKey has returned true for.                                *)

StoreCallsInit ==
    [op |-> "store", created |-> {}, deleted |-> {}, overlapped |-> FALSE]

StoreInit == StorageInit /\ ServerInit /\ call = StoreCallsInit

KeyIds(ks) == { ks[i].id : i \in 1..Len(ks) }

\* A suspended call of the service; held is the ids of the keys on the list
\* when a validateKey call began
Pending(op, n, key, keyData, next, held) ==
    [op |-> op, n |-> n, key |-> key, keyData |-> keyData, next |-> next,
     held |-> held]

\* Some validateKey call is suspended
Validating == \E p \in BagToSet(validations) : p.op = "validateKey"

\* The secrets a caller can present: those createKey has returned, and one
\* that no createKey returned
StoreSecrets ==
    {"wrong-secret"} \cup { SecretOf(n) : n \in { m \in 1..MaxKeys :
                                                  IdOf(m) \in call.created } }

\* createKey up to its await: the id and the secret are generated and
\* argon2.hash is started
StoreCreateKey ==
    /\ issued < MaxKeys
    /\ BagCardinality(validations) < MaxCalls
    /\ \E role \in {"read", "write"} :
         validations' =
             With(validations,
                  Pending("createKey", issued + 1, SecretOf(issued + 1),
                          MkKey(IdOf(issued + 1),
                                Argon2Hash(SecretOf(issued + 1)), role, None,
                                None), 0, {}))
    /\ issued' = issued + 1
    /\ UNCHANGED <<storageVars, keys, keysFile, resp, call>>

\* argon2.hash resolves: the key is pushed, the list saved and the id and the
\* secret returned
StoreHashed ==
    /\ \E p \in BagToSet(validations) :
         /\ p.op = "createKey"
         /\ keys' = createKey(keys, p.n, p.keyData.role, p.keyData.scope)
         /\ keysFile' = save(keys')
         /\ validations' = Without(validations, p)
         /\ call' = [call EXCEPT !.created = @ \cup {IdOf(p.n)},
                                 !.overlapped = @ \/ Validating]
    /\ UNCHANGED <<storageVars, issued, resp>>

\* validateKey of a secret other than the admin secret on a list that is not
\* empty: the loop reads the first key and suspends on argon2.verify
StoreValidateKey ==
    /\ keys # <<>>
    /\ BagCardinality(validations) < MaxCalls
    /\ \E key \in StoreSecrets :
         validations' = With(validations,
                             Pending("validateKey", 0, key, Element(keys, 1),
                                     2, KeyIds(keys)))
    /\ UNCHANGED <<storageVars, keys, keysFile, issued, resp, call>>

\* argon2.verify resolves: on a match the key object is stamped, the list
\* saved and the key returned; else the loop reads the next key of the list
\* as it is now, or returns null
StoreVerified ==
    /\ \E p \in BagToSet(validations) :
         /\ p.op = "validateKey"
         /\ IF Argon2Verify(p.keyData.hash, p.key)
            THEN /\ \E now \in Instants :
                      keys' = Touch(keys, p.keyData.id, now)
                 /\ keysFile' = save(keys')
                 /\ validations' = Without(validations, p)
            ELSE IF p.next > Len(keys)
            THEN /\ validations' = Without(validations, p)
                 /\ UNCHANGED <<keys, keysFile>>
            ELSE /\ validations' =
                        With(Without(validations, p),
                             [p EXCEPT !.keyData = Element(keys, p.next),
                                       !.next = @ + 1])
                 /\ UNCHANGED <<keys, keysFile>>
    /\ UNCHANGED <<storageVars, issued, resp, call>>

\* deleteKey(id)
StoreDeleteKey ==
    /\ \E n \in 1..MaxKeys :
         LET r == deleteKey(keys, IdOf(n)) IN
         /\ r.deleted
         /\ keys' = r.keys
         /\ keysFile' = save(r.keys)
         /\ call' = [call EXCEPT !.deleted = @ \cup {IdOf(n)},
                                 !.overlapped = @ \/ Validating]
    /\ UNCHANGED <<storageVars, issued, validations, resp>>

StoreNext ==
    StoreCreateKey \/ StoreHashed \/ StoreValidateKey \/ StoreVerified
        \/ StoreDeleteKey

SpecStore == StoreInit /\ [][StoreNext]_vars

----------------------------------------------------------------------------
(* Claims about the apt documents *)

\* A reply of the route to an apt request has just been sent
AptServed(route) == call.op = "apt" /\ call.route = route

\* What the control file of the package.deb now at path declares, as
\* dpkg-deb reads it; nothing when no package file is there
DeclaredAt(path) ==
    IF path \in DOMAIN debFiles /\ IsDeb(debFiles[path])
    THEN ControlOf(debFiles[path]) ELSE NoExtra

\* The directory of the package a stanza of the served Packages document
\* describes
StanzaPath(stanza) ==
    PathJoin(<<call.params[1], call.params[2], call.params[3],
               stanza.architecture, stanza.name, stanza.version>>)

\* C21: declared fields only.  Each stanza of a served Packages document has
\* a Multi-Arch (an Installed-Size) line exactly when the control file of the
\* package.deb now stored at the stanza's location declares the field, and
\* the line carries the declared value.
C21_DeclaredFields ==
    AptServed(RouteAptPackages) =>
        \A i \in 1..Len(call.body) :
            LET stanza == call.body[i]
                declared == DeclaredAt(StanzaPath(stanza))
            IN /\ stanza.multiArch =
                     (IF declared.multiArch # "" THEN Some(declared.multiArch)
                      ELSE None)
               /\ stanza.installedSize =
                     (IF declared.installedSize # NoSize
                      THEN Some(declared.installedSize) ELSE None)

\* The entries of the cached index of the requested repo that belong into
\* the requested Packages document, in index order
EntriesFor(a) ==
    IF a[1] \in DOMAIN indexCache
    THEN SelectSeq(indexCache[a[1]],
                   LAMBDA p : /\ p.distribution = a[2]
                              /\ p.component = a[3]
                              /\ p.architecture \in {a[4], "all"})
    ELSE <<>>

\* C22: the contents of a Packages document.  The document served for
\* (repo, distribution, component, arch) has one stanza for exactly those
\* index entries of the repo, distribution and component whose architecture
\* is arch or "all", in index order.
C22_PackagesContents ==
    AptServed(RouteAptPackages) =>
        LET entries == EntriesFor(call.params) IN
        /\ call.status = 200
        /\ Len(call.body) = Len(entries)
        /\ \A i \in 1..Len(entries) :
              /\ call.body[i].name = entries[i].name
              /\ call.body[i].version = entries[i].version
              /\ call.body[i].architecture = entries[i].architecture
              /\ call.body[i].sha256 = entries[i].sha256

\* The arm64 document of main has just been served with the stanza of the
\* Architecture: all package, the index holding another entry as well
C22_Witness ==
    /\ AptServed(RouteAptPackages)
    /\ call.params = <<"default", "stable", "main", "arm64">>
    /\ Len(indexCache["default"]) >= 2
    /\ Len(call.body) = 1
    /\ call.body[1].name = "shared"
    /\ call.body[1].architecture = "all"

\* The Packages paths a Release lists, in either section
ListedPaths(release) ==
    { release.md5Sum[i].rest : i \in 1..Len(release.md5Sum) }
    \cup { release.sha256[i].rest : i \in 1..Len(release.sha256) }

\* C23: no binary-all.  A Release lists no <component>/binary-all/Packages
\* and no "all" under Architectures, and a request for
\* <component>/binary-all/Packages is not answered with a Packages document
\* of stanzas.
C23_NoBinaryAll ==
    /\ AptServed(RouteAptRelease) =>
          /\ \A i \in 1..Len(call.body.architectures) :
                call.body.architectures[i] # "all"
          /\ \A rest \in ListedPaths(call.body) :
                ~Contains(rest, "/binary-all/Packages")
    /\ (AptServed(RouteAptPackages) /\ call.params[4] = "all") =>
          ~(call.status = 200 /\ Len(call.body) > 0)

\* The part of C23 about the Release document alone
C23_ReleaseWithoutAll ==
    AptServed(RouteAptRelease) =>
        /\ \A i \in 1..Len(call.body.architectures) :
              call.body.architectures[i] # "all"
        /\ \A rest \in ListedPaths(call.body) :
              ~Contains(rest, "/binary-all/Packages")

\* The (component, arch) pairs a Release of the cached index of the
\* requested repo and distribution has to list: arch is a native
\* architecture of the distribution's entries or amd64, and some entry of
\* the component has architecture arch or "all"
ReleasePairs(a) ==
    LET index == IF a[1] \in DOMAIN indexCache THEN indexCache[a[1]] ELSE <<>>
        slice == SelectSeq(index, LAMBDA p : p.distribution = a[2])
        Entries == { slice[i] : i \in 1..Len(slice) }
        archs == ({ p.architecture : p \in Entries } \ {"all"}) \cup {"amd64"}
    IN { c \in { <<p.component, arch>> : p \in Entries, arch \in archs } :
           \E p \in Entries : /\ p.component = c[1]
                               /\ p.architecture \in {c[2], "all"} }

\* The lines of a checksum section that name the path
LinesFor(section, path) ==
    { i \in 1..Len(section) : section[i].rest = " " \o path }

\* C24: Release and Packages agree.  A served Release has, in each of its
\* MD5Sum and SHA256 sections, exactly one line for each (component, arch)
\* pair with a matching package and no other line, and the size and digest
\* of the line are those of the document the Packages route serves for the
\* pair in the same state.
C24_ReleaseConsistent ==
    AptServed(RouteAptRelease) =>
        LET a == call.params
            Paths == { c[1] \o "/binary-" \o c[2] \o "/Packages" :
                         c \in ReleasePairs(a) }
        IN /\ \A c \in ReleasePairs(a), dpkg \in BOOLEAN :
                LET path == c[1] \o "/binary-" \o c[2] \o "/Packages"
                    served == AptPackagesHandler(World,
                                  <<a[1], a[2], c[1], c[2]>>, dpkg).body
                    md5 == LinesFor(call.body.md5Sum, path)
                    sha == LinesFor(call.body.sha256, path)
                IN /\ Cardinality(md5) = 1
                   /\ Cardinality(sha) = 1
                   /\ \A i \in md5 :
                        /\ call.body.md5Sum[i].digest = Md5(served)
                        /\ call.body.md5Sum[i].size = ByteLength(served)
                   /\ \A i \in sha :
                        /\ call.body.sha256[i].digest = Sha256(served)
                        /\ call.body.sha256[i].size = ByteLength(served)
           /\ \A rest \in ListedPaths(call.body) :
                \E path \in Paths : rest = " " \o path

\* The entries of every index.json
AllEntries ==
    UNION { { indexFiles[repo][i] : i \in 1..Len(indexFiles[repo]) } :
              repo \in DOMAIN indexFiles }

\* C25: pool round trip.  For every index entry, the Filename of its stanza
\* leads the pool route to the entry's own (distribution, component,
\* architecture), its file name decodes to the entry's (name, version,
\* architecture), and GET /apt/<repo>/<Filename> serves the bytes of the
\* entry's package.deb; a pool request whose file name does not match
\* <name>_<version>_<arch>.deb is answered 400, one for an absent package 404.
C25_PoolRoundTrip ==
    /\ \A e \in AllEntries :
          LET a == PoolParams(e.repo, PackagesStanza(World, e).filename)
              served == AptPoolHandler(World, a)
          IN /\ Len(a) = 5
             /\ <<a[2], a[3], a[4]>> = <<e.distribution, e.component, e.architecture>>
             /\ MatchNameVersionArch(a[5])
                    = Some(<<e.name, e.version, e.architecture>>)
             /\ IF getPackageFile(World, e)
                THEN /\ served.status = 200
                     /\ served.body = debFiles[getPackagePath(e)]
                ELSE served.status = 404
    /\ AptServed(RouteAptPool) =>
          LET a == call.params
              match == MatchNameVersionArch(a[5])
          IN /\ match = None => call.status = 400
             /\ (match # None /\ PathJoin(<<a[1], a[2], a[3], a[4],
                                           match[1][1], match[1][2]>>)
                                    \notin DOMAIN debFiles)
                   => call.status = 404
             /\ call.status \in {200, 400, 404}

\* The package of tool has just been downloaded by the Filename of its
\* stanza, in a state in which the route refuses hello.deb and does not
\* find the package of hello
C25_Witness ==
    /\ AptServed(RouteAptPool)
    /\ call.params = PoolParams("default", PoolFilename(LocTool))
    /\ call.status = 200
    /\ call.body = DebZst
    /\ \E e \in AllEntries : SameKey(e, LocTool)
    /\ AptPoolHandler(World, <<"default", "stable", "main", "amd64",
                               "hello.deb">>).status = 400
    /\ AptPoolHandler(World, PoolParams("default", PoolFilename(LocHello))).status
           = 404

----------------------------------------------------------------------------
(* Claims about deletePackage *)

\* The tree holds the package of loc, stored into an empty tree, and nothing
\* else; no storePackage call is in flight
OnlyPackage(loc) ==
    /\ tasks = EmptyBag
    /\ dirs = Prefixes(getPackagePath(loc))
    /\ DOMAIN debFiles = {getPackagePath(loc)}
    /\ DOMAIN metaFiles = {getPackagePath(loc)}
    /\ DOMAIN indexFiles = {loc.repo}
    /\ Len(indexFiles[loc.repo]) = 1
    /\ SameKey(indexFiles[loc.repo][1], loc)

\* deletePackage(loc) is the call that returned in this step
Deleted(loc) == ret'.op = "deletePackage" /\ ret'.loc = loc

\* C26: delete undoes store.  deletePackage(loc) on the tree that
\* storePackage(loc) made of the empty tree returns true and leaves the
\* repository as it was: listPackages returns [], getPackageFile and
\* getPackageMetadata return nothing for loc, and the data tree is empty
\* again - no directory and no file below dataRoot.
C26_DeleteUndoesStore ==
    [][ \A loc \in Locs :
          (OnlyPackage(loc) /\ Deleted(loc)) =>
              /\ ret'.value
              /\ \A dpkg \in BOOLEAN, order \in Orders(listRepos(World)') :
                    ListPackagesFrom(World, NoFilters, order, dpkg).results' = <<>>
              /\ ~getPackageFile(World, loc)'
              /\ getPackageMetadata(World, loc)' = NoMeta
              /\ dirs' = {}
              /\ DOMAIN debFiles' = {}
              /\ DOMAIN metaFiles' = {}
              /\ DOMAIN indexFiles' = {} ]_vars

\* What C26 has right: after the delete nothing of the package is left and
\* every listing is empty; the repo directory stays, holding an index.json
\* without entries
C26_DeleteLeavesIndex ==
    [][ \A loc \in Locs :
          (OnlyPackage(loc) /\ Deleted(loc)) =>
              /\ ret'.value
              /\ \A dpkg \in BOOLEAN, order \in Orders(listRepos(World)') :
                    ListPackagesFrom(World, NoFilters, order, dpkg).results' = <<>>
              /\ ~getPackageFile(World, loc)'
              /\ getPackageMetadata(World, loc)' = NoMeta
              /\ dirs' = {getIndexPath(loc.repo)}
              /\ DOMAIN debFiles' = {}
              /\ DOMAIN metaFiles' = {}
              /\ indexFiles' = [r \in {loc.repo} |-> <<>>] ]_vars

\* What the tree holds under the names of loc
Stored(loc) == HasDeb(loc) /\ HasMeta(loc) /\ HasEntry(loc)
Absent(loc) == ~HasDeb(loc) /\ ~HasMeta(loc) /\ ~HasEntry(loc)

\* The entries any listing returns that carry loc's keys
ListedEntries(w, loc) ==
    UNION { { r[i] : i \in { j \in 1..Len(r) : SameKey(r[j], loc) } } :
              r \in { ListPackagesFrom(w, NoFilters, order, dpkg).results :
                        order \in Orders(listRepos(w)), dpkg \in BOOLEAN } }

\* A DELETE /api/v1/packages/... request is answered by its handler in this
\* step
DeleteServed ==
    /\ call'.op = "request"
    /\ call'.served = call.served + 1
    /\ call'.req.route = RouteDeletePackage
    /\ call'.status \in {204, 404}

\* C27: delete.  A DELETE naming a location where no package is stored is
\* answered 404 and changes nothing; a DELETE of a stored package is
\* answered 204, after which getPackageFile and getPackageMetadata return
\* nothing for it, no listing contains it and a second delete of the
\* location finds nothing to delete.
C27_Delete ==
    [][ DeleteServed =>
          LET a == call'.req.params
              loc == MkLoc(a[1], a[2], a[3], a[4], a[5], a[6])
          IN /\ Absent(loc) =>
                  /\ call'.status = 404
                  /\ UNCHANGED <<dirs, debFiles, metaFiles, indexFiles>>
             /\ Stored(loc) =>
                  /\ call'.status = 204
                  /\ ~getPackageFile(World', loc)
                  /\ getPackageMetadata(World', loc) = NoMeta
                  /\ ListedEntries(World', loc) = {}
                  /\ ~DirExists(World', getPackagePath(loc)) ]_vars

\* The same about deletePackage called directly: false and no change
\* without the package directory; true for a stored package, which is then
\* gone from the tree and every listing, so that a second call returns false
C27_DeletePackage ==
    [][ \A loc \in Locs :
          Deleted(loc) =>
            /\ ~DirExists(World, getPackagePath(loc)) =>
                  /\ ~ret'.value
                  /\ UNCHANGED <<dirs, debFiles, metaFiles, indexFiles,
                                 indexCache, tasks>>
            /\ Stored(loc) =>
                  /\ ret'.value
                  /\ ~getPackageFile(World, loc)'
                  /\ getPackageMetadata(World, loc)' = NoMeta
                  /\ ListedEntries(World, loc)' = {}
                  /\ ~DirExists(World, getPackagePath(loc))' ]_vars

----------------------------------------------------------------------------
(* Claims about the credentials of a request *)

\* C28: bearer first.  For a request with an Authorization: Bearer header
\* only the token counts: validateKey is never called for it, a request whose
\* token does not verify is answered 401 whatever its X-Api-Key, one whose
\* token verifies is served as the workflow - an upload is stored under the
\* workflow's identity, the key-only routes answer 401 - and answering it
\* leaves the key list and the key file alone.
C28_BearerFirst ==
    [][ /\ \A v \in BagToSet(validations') : v.req.bearer = None
        /\ \A task \in BagToSet(tasks') :
              task.caller.bearer # None =>
                  task.uploaderKeyId = "oidc:rsxdalv/hello"
        /\ (resp' # NoResp /\ resp'.bearer # None) =>
              /\ resp'.bearer = Some(ForgedToken) => resp'.status = 401
              /\ resp'.route # RouteUploadPackage => resp'.status = 401
              /\ UNCHANGED <<keys, keysFile>> ]_vars

\* An upload carrying the workflow token and the secret of the stored key
\* has been answered 201 and is stored under the workflow's identity, the
\* key never having been used
C28_Witness ==
    /\ resp # NoResp
    /\ resp.route = RouteUploadPackage
    /\ resp.bearer = Some(HelloToken)
    /\ resp.xApiKey = Some(SecretOf(1))
    /\ resp.status = 201
    /\ HasMeta(LocHello)
    /\ metaFiles[getPackagePath(LocHello)].uploaderKeyId = "oidc:rsxdalv/hello"
    /\ keys[1].lastUsed = None

\* C29: the bootstrap admin.  validateKey of the configured admin secret
\* returns an identity with id "admin" and role admin whatever the list
\* holds, hands no stored hash to argon2.verify and leaves the key list and
\* the key file as they are.
C29_BootstrapAdmin ==
    [][ (call'.op = "validateKey" /\ call'.key = adminKey[1]) =>
          /\ call'.result # None
          /\ call'.result[1].id = "admin"
          /\ call'.result[1].role = "admin"
          /\ call'.verified = 0
          /\ UNCHANGED <<keys, keysFile>> ]_vars

\* The admin secret has just been validated against a list of two keys, one
\* of them used before
C29_Witness ==
    /\ call.op = "validateKey"
    /\ call.key = adminKey[1]
    /\ call.result = Some(BootstrapAdmin)
    /\ Len(keys) = 2
    /\ \E i \in 1..Len(keys) : keys[i].lastUsed # None
    /\ keysFile = Some(keys)

----------------------------------------------------------------------------
(* Claims about overlapping calls of the key store *)

\* The id of the key validateKey returns for key on the list ks, None for null
ValidatedId(ks, key) ==
    LET result == validateKey(ks, key, "T0").result
    IN IF result = None THEN None ELSE Some(result[1].id)

\* C30: when every call of an interleaving of createKey, validateKey and
\* deleteKey calls has returned, the key file holds the list the service
\* holds, the list holds exactly the keys created and not deleted, each
\* once, and a service loaded from the file validates the secrets of exactly
\* these keys, as the running service does.
C30_KeyStoreSerial ==
    (call.op = "store" /\ validations = EmptyBag) =>
        /\ load(keysFile) = keys
        /\ KeyIds(keys) = call.created \ call.deleted
        /\ Len(keys) = Cardinality(KeyIds(keys))
        /\ \A n \in 1..MaxKeys :
             /\ ValidatedId(load(keysFile), SecretOf(n))
                  = ValidatedId(keys, SecretOf(n))
             /\ ValidatedId(load(keysFile), SecretOf(n))
                  = IF IdOf(n) \in call.created \ call.deleted
                    THEN Some(IdOf(n)) ELSE None

\* Every call has returned; two keys were created and the first deleted, a
\* createKey or a deleteKey ran while a validateKey was suspended, and the
\* key that is left has been validated
C30_Witness ==
    /\ call.op = "store"
    /\ validations = EmptyBag
    /\ call.created = {IdOf(1), IdOf(2)}
    /\ call.deleted = {IdOf(1)}
    /\ call.overlapped
    /\ Len(keys) = 1
    /\ keys[1].lastUsed # None
    /\ keysFile = Some(keys)

----------------------------------------------------------------------------
(* Claims about the upload handler's checks of the file *)

\* A validateDebianPackage call has returned
Validated == call.op = "validateDebianPackage" /\ call.returned

\* The archive has a header that cannot be read
ParseFailure(ar) == \E i \in 1..Len(ar.items) : ~ar.items[i].ok

\* The archive has a member whose name starts with prefix
HasMember(ar, prefix) ==
    \E i \in 1..Len(ar.items) :
        ar.items[i].ok /\ IsPrefix(prefix, ar.items[i].name)

\* The content of the archive's (first) debian-binary member begins "2."
Binary2(ar) ==
    /\ HasMember(ar, "debian-binary")
    /\ LET i == CHOOSE i \in 1..Len(ar.items) :
                   /\ ar.items[i].ok /\ IsPrefix("debian-binary", ar.items[i].name)
                   /\ \A j \in 1..(i - 1) :
                        ~(ar.items[j].ok
                          /\ IsPrefix("debian-binary", ar.items[j].name))
       IN IsPrefix("2.", Trim(ar.items[i].data))

\* What the archive lacks, by the messages of the validator
Lacks(ar) ==
    (IF ~HasMember(ar, "debian-binary") \/ ~HasMember(ar, "control.tar")
        \/ ~HasMember(ar, "data.tar")
     THEN {"Not a Debian package"} ELSE {})
    \cup (IF HasMember(ar, "debian-binary") /\ ~Binary2(ar)
          THEN {"Unsupported Debian package format"} ELSE {})

\* The error begins with one of the messages
ErrorIn(error, messages) == \E m \in messages : IsPrefix(m, error)

\* What the upload handler gets for each package file is what the reading
\* of its archive gives
C32_PackageFilesAgree ==
    \A buffer \in {DebGz, DebXz, DebZst, NotDeb, <<>>} :
        validateDebianPackage(buffer) = validateAr(ArOf(buffer))

\* C32: validateDebianPackage accepts a buffer exactly when it starts with
\* the ar magic and its members include a debian-binary whose content begins
\* "2.", a control.tar* and a data.tar*; a buffer without the magic or with a
\* header that cannot be parsed gets "Invalid ar archive", a missing member
\* "Not a Debian package", a debian-binary that is not 2.x "Unsupported
\* Debian package format", and the upload is answered 400 with that message.
C32_ValidatorErrors ==
    Validated =>
        LET ar == call.ar IN
        /\ call.result.valid <=>
               /\ ar.magic /\ ~ParseFailure(ar)
               /\ Binary2(ar)
               /\ HasMember(ar, "control.tar") /\ HasMember(ar, "data.tar")
        /\ ~call.result.valid =>
               /\ call.status = 400 /\ call.error = call.result.error
               /\ IF ~ar.magic \/ ParseFailure(ar)
                  THEN ErrorIn(call.error, {"Invalid ar archive"})
                  ELSE ErrorIn(call.error, Lacks(ar))

\* The same for the archives all of whose headers can be read
C32_ReadableArchives ==
    (Validated /\ ~ParseFailure(call.ar)) =>
        LET ar == call.ar IN
        /\ call.result.valid <=>
               /\ ar.magic /\ Binary2(ar)
               /\ HasMember(ar, "control.tar") /\ HasMember(ar, "data.tar")
        /\ ~call.result.valid =>
               /\ call.status = 400 /\ call.error = call.result.error
               /\ IF ~ar.magic
                  THEN ErrorIn(call.error, {"Invalid ar archive"})
                  ELSE ErrorIn(call.error, Lacks(ar))

\* An upload was handled in the step
Uploaded == call'.op = "upload" /\ call'.served # call.served

\* C31: an upload whose file is longer than maxUploadSize is answered 413
\* and stores nothing; a file of exactly maxUploadSize bytes is not answered
\* 413.
C31_OversizeRejected ==
    [][ Uploaded =>
          /\ call'.length > call'.config.maxUploadSize =>
                /\ call'.status = 413
                /\ resp' # NoResp /\ resp'.status = 413
                /\ UNCHANGED <<dirs, debFiles, metaFiles, indexFiles,
                             indexCache, tasks>>
          /\ call'.length = call'.config.maxUploadSize =>
                call'.status # 413 ]_vars

\* What holds of the sizes: a file longer than maxUploadSize is answered
\* 500 or 400 and stores nothing, a file of exactly maxUploadSize bytes is
\* not rejected for its size, and no upload is answered 413
C31_OversizeNotStored ==
    [][ Uploaded =>
          /\ call'.length > call'.config.maxUploadSize =>
                /\ call'.status \in {400, 500}
                /\ UNCHANGED <<dirs, debFiles, metaFiles, indexFiles,
                             indexCache, tasks>>
          /\ call'.status # 413 ]_vars

----------------------------------------------------------------------------
(* Claims about the index cache *)

\* The packages of index.json, none without the file
FileIndex(idx, repo) == IF repo \in DOMAIN idx THEN idx[repo] ELSE <<>>

\* Every cached index equals its index.json
WrittenThrough(cache, idx) ==
    \A repo \in DOMAIN cache : cache[repo] = FileIndex(idx, repo)

\* C33: index cache write-through.  A cached index changes only to what
\* has been written to index.json; when the write fails the cached index
\* keeps its previous value; and between the calls every cached index equals
\* the content of its index.json.
C33_WriteThrough ==
    [][ /\ \A repo \in DOMAIN indexCache' :
             (repo \notin DOMAIN indexCache
                 \/ indexCache'[repo] # indexCache[repo]) =>
                    indexCache'[repo] = FileIndex(indexFiles', repo)
        /\ ~call'.disk =>
             \A repo \in DOMAIN indexCache :
                 repo \in DOMAIN indexCache'
                     /\ indexCache'[repo] = indexCache[repo]
        /\ WrittenThrough(indexCache', indexFiles') ]_vars

\* While the disk takes the writes, the cached indexes stay equal to the
\* index.json files
C33_WriteThroughOnGoodDisk ==
    [][ (WrittenThrough(indexCache, indexFiles) /\ call'.disk) =>
            WrittenThrough(indexCache', indexFiles') ]_vars

\* The index of loc's repo among indexes has an entry with loc's keys
InIndex(indexes, loc) ==
    /\ loc.repo \in DOMAIN indexes
    /\ \E i \in 1..Len(indexes[loc.repo]) :
          SameKey(indexes[loc.repo][i], loc)

Cached(loc) == InIndex(indexCache, loc)

\* C34: the index update of a call is not interleaved with that of another.
\* When a storePackage returns, index.json and the cached index have the
\* entry of its location, and when a deletePackage returns true they have
\* none; in either case they agree, and index.json has the entries of the
\* other locations it had before - whatever other calls are suspended.
C34_NoLostUpdate ==
    [][ (ret'.op \in {"storePackage", "deletePackage"} /\ ret'.ok
           /\ (ret'.op = "deletePackage" => ret'.value)) =>
          /\ InIndex(indexFiles', ret'.loc) = (ret'.op = "storePackage")
          /\ InIndex(indexCache', ret'.loc) = (ret'.op = "storePackage")
          /\ indexCache'[ret'.loc.repo]
                = FileIndex(indexFiles', ret'.loc.repo)
          /\ \A other \in Locs \ {ret'.loc} :
                /\ InIndex(indexFiles', other) = InIndex(indexFiles, other)
                /\ InIndex(indexCache', other) = InIndex(indexFiles, other) ]_vars

\* storePackage of hello has returned while a storePackage of shared, which
\* has an entry, is suspended: both entries are in index.json and in the
\* cached index
C34_Witness ==
    /\ ret.op = "storePackage" /\ ret.ok /\ ret.loc = LocHello
    /\ \E task \in BagToSet(tasks) : task.loc = LocShared /\ task.pc = "close"
    /\ HasEntry(LocHello) /\ HasEntry(LocShared)
    /\ Cached(LocHello) /\ Cached(LocShared)

----------------------------------------------------------------------------
(* Claims about self-heal *)

\* The entry with loc's keys in the index of loc's repo among indexes
EntryOf(indexes, loc) ==
    indexes[loc.repo][findIndex(indexes[loc.repo], loc)]

\* Two records differ at most in the fields a control extraction fills
SameButControl(a, b) ==
    [b EXCEPT !.description = a.description, !.multiArch = a.multiArch,
              !.installedSize = a.installedSize] = a

\* storePackage for loc has returned in the step
StoredNow(loc) == ret'.op = "storePackage" /\ ret'.ok /\ ret'.loc = loc

\* C35: self-heal.  Unless a storePackage for the location returns, an
\* index entry and a metadata.json that stay change only when the index of
\* their repo is loaded for the first time in the process and the entry had
\* no description; the entry then has the fields read from package.deb,
\* metadata.json has the same content, and the location keys, size, sha256, uploadedAt and uploaderKeyId are as
\* before.
C35_SelfHealOnly ==
    [][ \A loc \in Locs :
          LET path == getPackagePath(loc) IN
          /\ (InIndex(indexFiles, loc) /\ InIndex(indexFiles', loc)
                 /\ ~StoredNow(loc)) =>
               LET old == EntryOf(indexFiles, loc)
                   new == EntryOf(indexFiles', loc)
               IN /\ SameButControl(old, new)
                  /\ new # old =>
                       /\ loc.repo \notin DOMAIN indexCache
                       /\ old.description = ""
                       /\ path \in DOMAIN debFiles
                       /\ new = SpreadMeta(old, ControlOf(debFiles[path]))
                       /\ path \in DOMAIN metaFiles'
                       /\ metaFiles'[path] = new
          /\ (path \in DOMAIN metaFiles /\ path \in DOMAIN metaFiles'
                 /\ ~StoredNow(loc)) =>
               /\ SameButControl(metaFiles[path], metaFiles'[path])
               /\ metaFiles'[path] # metaFiles[path] =>
                    /\ loc.repo \notin DOMAIN indexCache
                    /\ InIndex(indexFiles', loc)
                    /\ metaFiles'[path] = EntryOf(indexFiles', loc) ]_vars

\* After a restart the index has been loaded by a call other than
\* storePackage; the entry of shared, stored from the xz file, has the
\* description dpkg-deb reads from it, and so has its metadata.json
C35_Witness ==
    /\ ret = NoRet
    /\ tasks = EmptyBag
    /\ "default" \in DOMAIN indexCache
    /\ InIndex(indexFiles, LocShared)
    /\ EntryOf(indexFiles, LocShared).description = "xz"
    /\ getPackagePath(LocShared) \in DOMAIN metaFiles
    /\ metaFiles[getPackagePath(LocShared)] = EntryOf(indexFiles, LocShared)
    /\ indexCache["default"] = indexFiles["default"]

----------------------------------------------------------------------------
(* Claims about uploads and deletes through the API *)

\* C36: a rejected upload has no effect.  The step in which an upload is
\* answered 400, 401, 403 or 413 leaves the directories, the package.deb and
\* metadata.json files, every index.json, the index cache and the
\* storePackage calls in flight as they were.
C36_RejectedUpload ==
    [][ (resp' # NoResp /\ resp'.route = RouteUploadPackage
           /\ resp'.status \in {400, 401, 403, 413}) =>
          UNCHANGED <<dirs, debFiles, metaFiles, indexFiles, indexCache,
                      tasks>> ]_vars

\* An upload by a stored key has been answered 403 on a server that holds
\* the package hello
C36_Witness ==
    /\ resp # NoResp
    /\ resp.route = RouteUploadPackage
    /\ resp.status = 403
    /\ resp.xApiKey = Some(SecretOf(1))
    /\ HasDeb(LocHello) /\ HasMeta(LocHello) /\ HasEntry(LocHello)

\* The package.deb, the metadata.json and the index entry of loc are after
\* the step what they were before it, but for the control fields a
\* self-heal fills
Untouched(loc) ==
    LET path == getPackagePath(loc) IN
    /\ (path \in DOMAIN debFiles') = (path \in DOMAIN debFiles)
    /\ path \in DOMAIN debFiles => debFiles'[path] = debFiles[path]
    /\ (path \in DOMAIN metaFiles') = (path \in DOMAIN metaFiles)
    /\ path \in DOMAIN metaFiles =>
          SameButControl(metaFiles[path], metaFiles'[path])
    /\ InIndex(indexFiles', loc) = InIndex(indexFiles, loc)
    /\ InIndex(indexFiles, loc) =>
          SameButControl(EntryOf(indexFiles, loc), EntryOf(indexFiles', loc))

\* C37: a delete affects only its location.  When the delete route has
\* handled a request, the package.deb, metadata.json and index entry of
\* every location other than the one the request names are as before.
C37_DeleteOnlyLoc ==
    [][ (call'.op = "request" /\ call'.served # call.served
           /\ call'.req.route = RouteDeletePackage /\ call'.loc # None) =>
          \A other \in Locs \ {call'.loc[1]} : Untouched(other) ]_vars

\* deletePackage(loc) called with a location whose six components are not
\* empty leaves every other location as it was
C37_DeletePackageOnlyLoc ==
    [][ ret'.op = "deletePackage" =>
          \A other \in Locs \ {ret'.loc} : Untouched(other) ]_vars

----------------------------------------------------------------------------
(* Claims about validateKey overlapping other calls of the key store *)

\* The step is the return of null by the suspended validateKey call p: its
\* last argon2.verify has resolved to false and the loop has found no next
\* key on the list
ReturnsNull(p) ==
    /\ p.op = "validateKey"
    /\ ~Argon2Verify(p.keyData.hash, p.key)
    /\ p.next > Len(keys)
    /\ validations' = Without(validations, p)
    /\ keys' = keys

\* The key of the list ks the secret key belongs to was on the list when the
\* call p began; ids are never issued twice, so it has been there throughout
HeldThroughout(p, ks) ==
    \E i \in 1..Len(ks) :
        /\ Argon2Verify(ks[i].hash, p.key)
        /\ ks[i].id \in p.held

\* C38: a validateKey call presenting the secret of a key that is in the
\* store from the call's beginning to its end does not return null, whatever
\* createKey and deleteKey calls on other keys complete while it is
\* suspended on argon2.verify.
C38_ValidateKeyUnaffected ==
    [][ \A p \in BagToSet(validations) :
          ReturnsNull(p) => ~HeldThroughout(p, keys) ]_vars

\* The same without deleteKey: no key has been deleted
C38_ValidateKeyWithoutDeletes ==
    [][ \A p \in BagToSet(validations) :
          (ReturnsNull(p) /\ call.deleted = {}) => ~HeldThroughout(p, keys)
      ]_vars

----------------------------------------------------------------------------
(* Claims about scoped keys and workflow tokens on the package endpoints *)

\* The step serves a request of one of the routes
Serves(routes) ==
    /\ call'.op = "request"
    /\ call'.served # call.served
    /\ call'.req.route \in routes

\* The repo and the distribution the request served by the step addresses
AddressedRepo ==
    IF call'.req.route = RouteDownloadPackage THEN "default"
    ELSE call'.req.params[1]

AddressedDistribution ==
    IF call'.req.route = RouteDownloadPackage THEN call'.req.params[1]
    ELSE call'.req.params[2]

\* The step changes neither the data tree nor the key store
ChangesNothing ==
    UNCHANGED <<dirs, debFiles, metaFiles, indexFiles, indexCache, tasks,
                keys, keysFile>>

\* C39: a get-metadata, download or delete request made with a key whose
\* scope leaves out the repo or the distribution the request addresses is
\* answered 403 and changes nothing.
C39_ScopeOnEveryEndpoint ==
    [][ (/\ Serves({RouteGetPackage, RouteDownloadPackage,
                    RouteDeletePackage})
         /\ call'.apiKey # None
         /\ OutsideScope(call'.apiKey[1], AddressedRepo,
                         AddressedDistribution))
          => /\ call'.status = 403
             /\ ChangesNothing ]_vars

\* The step sends the reply to a request that carried a bearer token and no
\* X-Api-Key, made to one of the routes
RepliesToToken(routes) ==
    /\ resp' # NoResp
    /\ resp'.bearer # None
    /\ resp'.xApiKey = None
    /\ resp'.route \in routes

\* Every storePackage call under way for a request that carried a bearer
\* token stores a package name isOidcAllowed allows the token's claims
TokenUploadsAllowed ==
    \A task \in BagToSet(tasks) :
        (task.caller.bearer # None /\ task.caller.xApiKey = None)
          => LET oidcClaims == verifyGitHubOIDC(task.caller.bearer[1], TRUE)
             IN /\ oidcClaims # None
                /\ isOidcAllowed(oidcClaims[1], task.loc.name)

\* C40: a request that carries a workflow token and no API key is answered
\* 401 and changes neither the data tree nor the key store on the list,
\* get-metadata, download and delete routes of packages and on every key
\* route; and a storePackage call is made for such a request only with a
\* package name isOidcAllowed allows the token's claims.
C40_TokenOnlyUploads ==
    [][ /\ RepliesToToken({RouteListPackages, RouteGetPackage,
                           RouteDownloadPackage, RouteDeletePackage}
                              \cup KeyRoutes)
            => /\ resp'.status = 401
               /\ ChangesNothing
        /\ TokenUploadsAllowed' ]_vars

\* The delete of the stored package hello 1.0 asked with the workflow's
\* token has been answered 401 by a server that holds a key, after an
\* upload with the token was stored
C40_Witness ==
    /\ resp # NoResp
    /\ resp.route = RouteDeletePackage
    /\ resp.bearer = Some(HelloToken)
    /\ resp.status = 401
    /\ keys # <<>>
    /\ getPackagePath(LocHello) \in DOMAIN metaFiles
    /\ metaFiles[getPackagePath(LocHello)].uploaderKeyId
          = "oidc:rsxdalv/hello"

\* The same of the routes under every configuration and with the claims of a
\* pull_request workflow: requests with claims and no key are answered 401
\* off the upload route, and storePackage is called for them only with a
\* package name the configuration allows the claims
C40_TokenOnRoutes ==
    (call.op = "request" /\ call.apiKey = None /\ call.oidcClaims # None)
      => IF call.req.route = RouteUploadPackage
         THEN call.status = 0
                => OidcAuthz(call.oidcClaims[1], call.loc[1].name,
                             call.config).allowed
         ELSE call.status = 401

====
